---- MODULE Spec2Model ----
(***************************************************************************)
(* BrokerWiz bot orchestrator: worker runtime, resource admission and the  *)
(* multi-tier retry manager, as state machines.                            *)
(*                                                                         *)
(*   Spec       the worker runtime of workers/mqtt_worker.py together with *)
(*              workers/resource_manager.py: messages are consumed, one    *)
(*              asyncio task per message, admission, bot execution.        *)
(*   SpecRetry  the operations of workers/retry_manager.py and             *)
(*              workers/models.py applied to one job envelope along its    *)
(*              retry chain.                                               *)
(*                                                                         *)
(* asyncio runs one task at a time and switches only at an await that      *)
(* really suspends, so an action below is one run of a task between two    *)
(* suspension points.                                                      *)
(***************************************************************************)
EXTENDS Integers, Sequences, FiniteSets, TLC

(* ------------------------------ bounds -------------------------------- *)

\* Messages published to bots/queue/+ that the worker consumes.
NumMsgs == 4

\* ResourceManager(max_concurrent=...): slots of the worker.
max_concurrent == 2

\* Largest retry_count / max_retries carried by an incoming envelope.
MaxRetryCount == 2

(* ------------------------- program constants -------------------------- *)

DEFAULT_MAX_CPU == 85

DEFAULT_MAX_MEMORY == 85

\* JobMessage.max_retries default, also the default of from_dict.
DEFAULT_MAX_RETRIES == 3

VARIABLES
    (* worker runtime *)
    broker,         \* message -> "queued" | "acked": the broker's view of it
    pc,             \* message -> state of the asyncio task created for it
    active_count,   \* ResourceManager._active_count
    active_bots,    \* ResourceManager._active_bots: job_id -> bot_id
    semaphore,      \* value of ResourceManager._semaphore
    cpu,            \* what psutil.cpu_percent reads now
    memory,         \* what psutil.virtual_memory().percent reads now
    environment,    \* settings.ENVIRONMENT of the worker process
    reports,        \* message -> the report_error calls handle_task made
    wloop,          \* where run_worker is in its reconnect loop
    client,         \* the aiomqtt client held by the worker's MQTTService
    mqtt_connected, \* MQTTService._connected of the worker
    subscriptions,  \* MQTTService._subscriptions of the worker
    wsleep,         \* seconds slept in asyncio.sleep(reconnect_interval)
    jobs,           \* payloads published for the worker, how many of them
                    \* its client received, and the data handed to tasks
    aexit_raises,   \* whether leaving a lost aiomqtt client raises its error
    lock_file,      \* whether temp/profiles/<bot>/cookies.lock exists
    writers,        \* the CookiesManager.save calls of one bot_id
    (* retry manager *)
    message,        \* the JobMessage of the delivery being handled
    rpc,            \* where the envelope is along its retry chain
    already_retried_immediately,
    attempt,        \* handler invocations in the current delivery
    decision,       \* the last handle_failure call and what it returned
    backoff,        \* asyncio.sleep(delay) of requeue_with_delay: seconds
                    \* asked for and seconds slept so far
    connected,      \* MQTTService._connected of the client in use
    wire,           \* publishes issued to the broker, in order
    (* DLQ manager *)
    messages,       \* DLQManager.messages: job_id -> JobMessage
    by_aseguradora, \* DLQManager.by_aseguradora, in insertion order
    subscriber,     \* "offline" | "online": the dlq-manager client
    session,        \* broker session of client id dlq-manager
    inbox,          \* client.messages of the subscriber, not yet handled
    stored,         \* positions in wire of the DLQ messages stored so far
    retry_call,     \* the POST /api/dlq/{job_id}/retry request in progress
    rival_call,     \* a second such request running at the same time
    calls,          \* retry requests made so far
    (* health and ingress routes of the API *)
    cache,          \* _mqtt_status_cache of routes/health.py
    now,            \* what time.time() reads, in seconds
    broker_up,      \* whether the broker answers the API's client
    requests,       \* the GET /health requests in progress
    last_probe,     \* when the most recent real probe was started
    response        \* the answer to the last POST /api/cotizaciones/{aseguradora}

report_vars == <<environment, reports>>

cookie_vars == <<lock_file, writers>>

conn_vars == <<wloop, client, mqtt_connected, subscriptions, wsleep, jobs,
               aexit_raises>>

worker_vars == <<broker, pc, active_count, active_bots, semaphore, cpu, memory,
                 report_vars, conn_vars, cookie_vars>>

retry_vars == <<message, rpc, already_retried_immediately, attempt, decision,
                backoff, connected>>

dlq_vars == <<messages, by_aseguradora, subscriber, session, inbox, stored,
              retry_call, rival_call, calls>>

health_vars == <<cache, now, broker_up, requests, last_probe, response>>

api_vars == <<dlq_vars, health_vars>>

vars == <<broker, pc, active_count, active_bots, semaphore, cpu, memory,
          report_vars, conn_vars, cookie_vars, message, rpc, already_retried_immediately, attempt, decision,
          backoff, connected, wire, api_vars>>

(* ======================= worker runtime (Spec) ======================== *)

Msgs == 1 .. NumMsgs

\* Topic of each published message, as its "/"-separated segments.  The
\* first message is for a vendor without a bot, the others for hdi.
MsgTopic(m) ==
    IF m = 1 THEN <<"bots", "queue", "sura">> ELSE <<"bots", "queue", "HDI">>

\* Decoded JSON of each message.  Messages from 3 on are legacy messages
\* without a job_id key.
MsgData(m) ==
    IF m = 1 THEN [job_id |-> "job-1", payload |-> "p1"]
    ELSE IF m = 2 THEN [job_id |-> "job-2", payload |-> "p2"]
    ELSE [payload |-> "p"]

\* str.lower() on the vendor tokens of the model.
lower(s) == IF s = "HDI" THEN "hdi" ELSE s

BOT_REGISTRY == {"hdi"}

\* A registry lookup that finds a bot class for every vendor.
get_bot_class_any(aseguradora) == lower(aseguradora)

\* BOT_REGISTRY.get(aseguradora.lower())
get_bot_class(aseguradora) ==
    IF lower(aseguradora) \in BOT_REGISTRY THEN lower(aseguradora) ELSE "None"

\* topic.split("/")[-1]
topic_aseguradora(topic) == topic[Len(topic)]

\* data.get("job_id", "unknown")
data_job_id(data) ==
    IF "job_id" \in DOMAIN data THEN data.job_id ELSE "unknown"

TaskJobId(m) == data_job_id(MsgData(m))

TaskAseguradora(m) == topic_aseguradora(MsgTopic(m))

CpuReadings == {DEFAULT_MAX_CPU, DEFAULT_MAX_CPU + 1}

MemoryReadings == {DEFAULT_MAX_MEMORY, DEFAULT_MAX_MEMORY + 1}

\* check_resources, with > turned into >= on the CPU sample.
check_resources_cpu_ge ==
    IF active_count >= max_concurrent THEN <<FALSE, "slots">>
    ELSE IF cpu >= DEFAULT_MAX_CPU THEN <<FALSE, "cpu">>
    ELSE IF memory > DEFAULT_MAX_MEMORY THEN <<FALSE, "ram">>
    ELSE <<TRUE, "">>

\* ResourceManager.check_resources: (ok, reason)
check_resources ==
    IF active_count >= max_concurrent THEN <<FALSE, "slots">>
    ELSE IF cpu > DEFAULT_MAX_CPU THEN <<FALSE, "cpu">>
    ELSE IF memory > DEFAULT_MAX_MEMORY THEN <<FALSE, "ram">>
    ELSE <<TRUE, "">>

\* dict with key k set to v
DictSet(d, k, v) == [x \in DOMAIN d \cup {k} |-> IF x = k THEN v ELSE d[x]]

\* dict.pop(k, None)
DictPop(d, k) == [x \in DOMAIN d \ {k} |-> d[x]]

\* acquire_slot entered without the resource check and without the
\* semaphore.
acquire_slot_enter_ungated(m) ==
    /\ active_count' = active_count + 1
    /\ active_bots' = DictSet(active_bots, TaskJobId(m), TaskAseguradora(m))
    /\ semaphore' = semaphore
    /\ pc' = [pc EXCEPT ![m] = "running"]

\* acquire_slot up to its yield, after check_resources answered ok: the
\* semaphore is taken (a task waits while it is 0), the job is registered.
acquire_slot_enter(m) ==
    /\ check_resources[1]
    /\ semaphore > 0
    /\ semaphore' = semaphore - 1
    /\ active_count' = active_count + 1
    /\ active_bots' = DictSet(active_bots, TaskJobId(m), TaskAseguradora(m))
    /\ pc' = [pc EXCEPT ![m] = "running"]

\* The finally block of acquire_slot that forgets the counter.
acquire_slot_exit_no_decrement(m, how) ==
    /\ active_count' = active_count
    /\ active_bots' = DictPop(active_bots, TaskJobId(m))
    /\ semaphore' = semaphore + 1
    /\ pc' = [pc EXCEPT ![m] = how]

\* acquire_slot from its yield on: the finally block and the release of
\* the semaphore; `how` is how the body ended.
acquire_slot_exit(m, how) ==
    /\ active_count' = active_count - 1
    /\ active_bots' = DictPop(active_bots, TaskJobId(m))
    /\ semaphore' = semaphore + 1
    /\ pc' = [pc EXCEPT ![m] = how]

\* run_worker's consume loop takes the next message from mqtt.messages()
\* and creates a task for it; where the reconnect loop is not part of the
\* specification (wloop is "off") the loop is taken to be consuming.
\* The client is built without manual
\* acknowledgement, so the PUBACK has left when the message is handed over.
Receive(m) ==
    /\ wloop \in {"off", "consuming"}
    /\ wloop = "consuming" => client = "live"
    /\ broker[m] = "queued"
    /\ \A k \in Msgs : k < m => broker[k] # "queued"
    /\ broker' = [broker EXCEPT ![m] = "acked"]
    /\ pc' = [pc EXCEPT ![m] = "created"]
    /\ UNCHANGED <<active_count, active_bots, semaphore, cpu, memory>>
    /\ UNCHANGED <<report_vars, conn_vars, cookie_vars, retry_vars, wire, api_vars>>

\* handle_task from its start: no bot for the vendor -> warning, return.
StartNoBot(m) ==
    /\ pc[m] = "created"
    /\ get_bot_class(TaskAseguradora(m)) = "None"
    /\ pc' = [pc EXCEPT ![m] = "dropped"]
    /\ UNCHANGED <<broker, active_count, active_bots, semaphore, cpu, memory>>
    /\ UNCHANGED <<report_vars, conn_vars, cookie_vars, retry_vars, wire, api_vars>>

\* handle_task from its start to the await of bot.run(): slot acquired.
StartAdmitted(m) ==
    /\ pc[m] = "created"
    /\ get_bot_class(TaskAseguradora(m)) # "None"
    /\ acquire_slot_enter(m)
    /\ UNCHANGED <<broker, cpu, memory>>
    /\ UNCHANGED <<report_vars, conn_vars, cookie_vars, retry_vars, wire, api_vars>>

\* handle_task from its start: acquire_slot raises ResourceUnavailableError,
\* handle_task logs and re-raises, task_done_callback ignores the exception.
StartRejected(m) ==
    /\ pc[m] = "created"
    /\ get_bot_class(TaskAseguradora(m)) # "None"
    /\ ~check_resources[1]
    /\ pc' = [pc EXCEPT ![m] = "rejected"]
    /\ UNCHANGED <<broker, active_count, active_bots, semaphore, cpu, memory>>
    /\ UNCHANGED <<report_vars, conn_vars, cookie_vars, retry_vars, wire, api_vars>>

\* bot.run() returned True: "completado exitosamente".
RunSucceeds(m) ==
    /\ pc[m] = "running"
    /\ acquire_slot_exit(m, "completed")
    /\ UNCHANGED <<broker, cpu, memory>>
    /\ UNCHANGED <<report_vars, conn_vars, cookie_vars, retry_vars, wire, api_vars>>

\* bot.run() returned False: "completado con errores".
RunReturnsFalse(m) ==
    /\ pc[m] = "running"
    /\ acquire_slot_exit(m, "completed_with_errors")
    /\ UNCHANGED <<broker, cpu, memory>>
    /\ UNCHANGED <<report_vars, conn_vars, cookie_vars, retry_vars, wire, api_vars>>

\* The except branch of handle_task reporting in every environment.
report_always(m) ==
    reports' = [reports EXCEPT ![m] =
                   Append(@, [error_code |-> "BOT_EXCEPTION",
                              severity |-> "CRITICAL"])]

\* The except branch of handle_task after the error is logged:
\* bot.report_error, in production only.
report(m) ==
    IF environment = "production"
    THEN reports' = [reports EXCEPT ![m] =
                        Append(@, [error_code |-> "BOT_EXCEPTION",
                                   severity |-> "CRITICAL"])]
    ELSE reports' = reports

\* The bot raised: handle_task's except Exception logs the error (and in
\* production reports it to the web application); nothing is published.
RunRaises(m) ==
    /\ pc[m] = "running"
    /\ acquire_slot_exit(m, "failed")
    /\ UNCHANGED <<broker, cpu, memory>>
    /\ report(m)
    /\ UNCHANGED <<environment, conn_vars, cookie_vars, retry_vars, wire,
                   api_vars>>

\* task.cancel() (shutdown) reaches the task at the await of bot.run():
\* CancelledError is no Exception, it leaves through the finally block.
CancelRunning(m) ==
    /\ pc[m] = "running"
    /\ acquire_slot_exit(m, "cancelled")
    /\ UNCHANGED <<broker, cpu, memory>>
    /\ UNCHANGED <<report_vars, conn_vars, cookie_vars, retry_vars, wire, api_vars>>

\* task.cancel() reaches a task that has not started: it never runs.
CancelCreated(m) ==
    /\ pc[m] = "created"
    /\ pc' = [pc EXCEPT ![m] = "cancelled"]
    /\ UNCHANGED <<broker, active_count, active_bots, semaphore, cpu, memory>>
    /\ UNCHANGED <<report_vars, conn_vars, cookie_vars, retry_vars, wire, api_vars>>

\* The host's load moves.
HostLoad ==
    /\ \E c \in CpuReadings, r \in MemoryReadings :
          /\ <<c, r>> # <<cpu, memory>>
          /\ cpu' = c
          /\ memory' = r
    /\ UNCHANGED <<broker, pc, active_count, active_bots, semaphore>>
    /\ UNCHANGED <<report_vars, conn_vars, cookie_vars, retry_vars, wire, api_vars>>

NoMessage == [job_id |-> "none"]

NoDecision == [action |-> "none"]

NoBackoff == [delay |-> 0, elapsed |-> 0]

Environments == {"development", "production"}

\* run_worker not started.
\* CookiesManager.save calls in one behaviour.
NumWriters == 3

Writers == 1 .. NumWriters

NoWriter == [pc |-> "idle", elapsed |-> 0, timed_out |-> FALSE]

\* No save in progress, no lock file.
CookiesOff ==
    /\ lock_file = FALSE
    /\ writers = [w \in Writers |-> NoWriter]

ConnOff ==
    /\ wloop = "off"
    /\ client = "None"
    /\ mqtt_connected = FALSE
    /\ subscriptions = {}
    /\ wsleep = 0
    /\ jobs = [published |-> <<>>, received |-> 0, consumed |-> <<>>]
    /\ aexit_raises = FALSE

WorkerInit ==
    /\ broker = [m \in Msgs |-> "queued"]
    /\ pc = [m \in Msgs |-> "none"]
    /\ active_count = 0
    /\ active_bots = <<>>
    /\ semaphore = max_concurrent
    /\ cpu = DEFAULT_MAX_CPU
    /\ memory = DEFAULT_MAX_MEMORY
    /\ environment \in Environments
    /\ reports = [m \in Msgs |-> <<>>]
    /\ ConnOff
    /\ CookiesOff

RetryOff ==
    /\ message = NoMessage
    /\ rpc = "off"
    /\ already_retried_immediately = FALSE
    /\ attempt = 0
    /\ decision = NoDecision
    /\ backoff = NoBackoff
    /\ connected = TRUE

NoCall == [pc |-> "idle"]

\* settings.api.API_KEY, and what a request can carry in its Authorization
\* header: the configured key, another bearer token, or no header at all.
API_KEY == "dev-key-change-in-prod"
Tokens == {API_KEY, "invalid_token", "None"}

\* HTTPBearer followed by verify_token: the status the dependency raises,
\* 0 when it lets the request through.
verify_token(token) ==
    IF token = "None" THEN 403
    ELSE IF token # API_KEY THEN 401
    ELSE 0

\* DLQManager.__init__, no subscriber started.
DlqOff ==
    /\ messages = <<>>
    /\ by_aseguradora = <<>>
    /\ subscriber = "offline"
    /\ session = [exists |-> FALSE, queue |-> <<>>, keeps_qos0 |-> FALSE,
                  since |-> 0]
    /\ inbox = <<>>
    /\ stored = {}
    /\ retry_call = NoCall
    /\ rival_call = NoCall
    /\ calls = 0

TTL_HEALTHY == 30

TTL_DEGRADED == 5

\* timeout of the ping made by _get_mqtt_status
PING_TIMEOUT == 3

NumRequests == 2

Requests == 1 .. NumRequests

NoRequest ==
    [pc |-> "idle", now |-> 0, probed |-> FALSE, pinged |-> FALSE,
     status |-> "none"]

NoResponse ==
    [status |-> 0, aseguradora |-> "", published |-> FALSE, payload |-> <<>>]

\* The module-level cache of routes/health.py, no request in progress.
HealthOff ==
    /\ cache = [is_alive |-> "None", last_check |-> 0, ttl |-> TTL_HEALTHY]
    /\ now = 0
    /\ broker_up = TRUE
    /\ requests = [r \in Requests |-> NoRequest]
    /\ last_probe = 0
    /\ response = NoResponse

ApiOff == DlqOff /\ HealthOff

Init ==
    /\ WorkerInit
    /\ RetryOff
    /\ ApiOff
    /\ wire = <<>>

Next ==
    \/ \E m \in Msgs : Receive(m)
    \/ \E m \in Msgs : StartNoBot(m)
    \/ \E m \in Msgs : StartAdmitted(m)
    \/ \E m \in Msgs : StartRejected(m)
    \/ \E m \in Msgs : RunSucceeds(m)
    \/ \E m \in Msgs : RunReturnsFalse(m)
    \/ \E m \in Msgs : RunRaises(m)
    \/ \E m \in Msgs : CancelRunning(m)
    \/ \E m \in Msgs : CancelCreated(m)
    \/ HostLoad

Spec == Init /\ [][Next]_vars

\* The steps run_worker and handle_task take by themselves are taken; when
\* or whether bot.run() returns is up to the bot.
WorkerFairness ==
    \A m \in Msgs :
        /\ WF_vars(Receive(m))
        /\ WF_vars(StartNoBot(m))
        /\ WF_vars(StartAdmitted(m))
        /\ WF_vars(StartRejected(m))

SpecLive == Init /\ [][Next]_vars /\ WorkerFairness

(* ================== retry manager chain (SpecRetry) =================== *)

\* Python's None where an ErrorDetail may stand.
None == [error_type |-> "None", error_code |-> "None"]

\* Exceptions a handler raises: class name, the classes it is an instance
\* of, whether str(exception) matches a STALE_ELEMENT_PATTERNS entry, and
\* which of the substrings tested by classify its lowercased name holds.
Exc(name, bases, stale, words) ==
    [name |-> name, bases |-> bases, stale |-> stale, words |-> words]

Exceptions ==
    { Exc("TransientError", {"TransientError", "BrokerWizError"}, FALSE, {}),
      Exc("RateLimitError", {"RetriableError", "BrokerWizError"}, FALSE,
          {"ratelimit"}),
      Exc("AuthenticationError", {"PermanentError", "BrokerWizError"}, FALSE,
          {"auth"}),
      Exc("TimeoutException", {"TimeoutException", "WebDriverException"},
          FALSE, {}),
      Exc("WebDriverException", {"WebDriverException"}, TRUE, {}),
      Exc("WebDriverException", {"WebDriverException"}, FALSE, {}),
      Exc("OAuthFailure", {}, FALSE, {"auth"}),
      Exc("KeyError", {}, FALSE, {}) }

\* ErrorClassifier.classify
classify(exception) ==
    IF "TransientError" \in exception.bases THEN "TRANSIENT"
    ELSE IF "RetriableError" \in exception.bases THEN "RETRIABLE"
    ELSE IF "PermanentError" \in exception.bases THEN "PERMANENT"
    ELSE IF exception.bases \cap {"TimeoutException", "NoSuchElementException"} # {}
        THEN "TRANSIENT"
    ELSE IF "StaleElementReferenceException" \in exception.bases THEN "TRANSIENT"
    ELSE IF "WebDriverException" \in exception.bases
        THEN (IF exception.stale THEN "TRANSIENT" ELSE "RETRIABLE")
    ELSE IF exception.words \cap {"auth", "credential"} # {} THEN "PERMANENT"
    ELSE IF exception.words \cap {"notimplemented", "validation"} # {}
        THEN "PERMANENT"
    ELSE IF exception.words \cap {"ratelimit", "resource"} # {} THEN "RETRIABLE"
    ELSE "RETRIABLE"

\* dict.get(key, default)
Get(d, key, default) == IF key \in DOMAIN d THEN d[key] ELSE default

known_fields ==
    {"job_id", "payload", "retry_count", "max_retries", "first_attempt_at",
     "last_error", "error_history", "timestamp"}

\* JobMessage.to_dict serialising an empty error_history.
to_dict_without_history(msg) ==
    [job_id |-> msg.job_id,
     payload |-> msg.payload,
     retry_count |-> msg.retry_count,
     max_retries |-> msg.max_retries,
     first_attempt_at |-> msg.first_attempt_at,
     last_error |-> msg.last_error,
     error_history |-> <<>>]

\* JobMessage.to_dict (ErrorDetail.to_dict copies the fields of a detail;
\* an absent last_error is None)
to_dict(msg) ==
    [job_id |-> msg.job_id,
     payload |-> msg.payload,
     retry_count |-> msg.retry_count,
     max_retries |-> msg.max_retries,
     first_attempt_at |-> msg.first_attempt_at,
     last_error |-> msg.last_error,
     error_history |-> msg.error_history]

\* JobMessage.from_dict keeping payload as received.
from_dict_without_folding(data) ==
    [job_id |-> Get(data, "job_id", "unknown"),
     payload |-> Get(data, "payload", <<>>),
     retry_count |-> Get(data, "retry_count", 0),
     max_retries |-> Get(data, "max_retries", DEFAULT_MAX_RETRIES),
     first_attempt_at |-> Get(data, "first_attempt_at", "now"),
     last_error |-> Get(data, "last_error", None),
     error_history |-> Get(data, "error_history", <<>>)]

\* JobMessage.from_dict: defaults for missing retry metadata, top-level
\* keys outside known_fields folded into payload unless present there.
from_dict(data) ==
    LET payload == Get(data, "payload", <<>>)
        extra == (DOMAIN data \ known_fields) \ DOMAIN payload
    IN  [job_id |-> Get(data, "job_id", "unknown"),
         payload |->
             [k \in DOMAIN payload \cup extra |->
                 IF k \in DOMAIN payload THEN payload[k] ELSE data[k]],
         retry_count |-> Get(data, "retry_count", 0),
         max_retries |-> Get(data, "max_retries", DEFAULT_MAX_RETRIES),
         first_attempt_at |-> Get(data, "first_attempt_at", "now"),
         last_error |-> Get(data, "last_error", None),
         error_history |-> Get(data, "error_history", <<>>)]

\* JobMessage.increment_retry writing 0.
increment_retry_to_zero(msg) == [msg EXCEPT !.retry_count = 0]

\* JobMessage.increment_retry adding 2.
increment_retry_by_two(msg) == [msg EXCEPT !.retry_count = msg.retry_count + 2]

\* JobMessage.increment_retry
increment_retry(msg) == [msg EXCEPT !.retry_count = msg.retry_count + 1]

\* JobMessage.is_max_retries_exceeded with > for >=.
is_max_retries_exceeded_gt(msg) == msg.retry_count > msg.max_retries

\* JobMessage.is_max_retries_exceeded
is_max_retries_exceeded(msg) == msg.retry_count >= msg.max_retries

\* RetryManager.calculate_delay growing linearly.
calculate_delay_linear(retry_count) == 2 * retry_count

\* RetryManager.calculate_delay
calculate_delay(retry_count) == 2 ^ retry_count

\* handle_failure with the retry budget looked at before the immediate
\* retry.
handle_failure_budget_first(msg, exception, already) ==
    LET error_type == classify(exception)
    IN  IF error_type = "PERMANENT" THEN "DLQ"
        ELSE IF is_max_retries_exceeded(msg) THEN "DLQ"
        ELSE IF error_type = "TRANSIENT" /\ ~already THEN "IMMEDIATE_RETRY"
        ELSE "REQUEUE"

\* handle_failure that does not look at already_retried_immediately.
handle_failure_ignoring_flag(msg, exception, already) ==
    LET error_type == classify(exception)
    IN  IF error_type = "TRANSIENT" THEN "IMMEDIATE_RETRY"
        ELSE IF error_type = "PERMANENT" THEN "DLQ"
        ELSE IF is_max_retries_exceeded(msg) THEN "DLQ"
        ELSE "REQUEUE"

\* handle_failure that retries in place whatever the error type.
handle_failure_retrying_all(msg, exception, already) ==
    LET error_type == classify(exception)
    IN  IF ~already THEN "IMMEDIATE_RETRY"
        ELSE IF error_type = "PERMANENT" THEN "DLQ"
        ELSE IF is_max_retries_exceeded(msg) THEN "DLQ"
        ELSE "REQUEUE"

\* RetryManager.handle_failure
handle_failure(msg, exception, already) ==
    LET error_type == classify(exception)
    IN  IF error_type = "TRANSIENT" /\ ~already THEN "IMMEDIATE_RETRY"
        ELSE IF error_type = "PERMANENT" THEN "DLQ"
        ELSE IF is_max_retries_exceeded(msg) THEN "DLQ"
        ELSE IF error_type = "RETRIABLE" \/ error_type = "TRANSIENT"
            THEN "REQUEUE"
        ELSE "DLQ"

\* MQTTService.get_topic
get_topic(aseguradora) == <<"bots", "queue", aseguradora>>

\* MQTTService.publish_task: False without a publish when not connected,
\* else a timestamp is added if absent and the dict is published.
publish_task(aseguradora, task_data) ==
    IF ~connected THEN wire' = wire
    ELSE wire' = Append(wire,
                    [topic |-> get_topic(aseguradora),
                     payload |-> IF "timestamp" \in DOMAIN task_data
                                 THEN task_data
                                 ELSE DictSet(task_data, "timestamp", "now"),
                     ok |-> TRUE])

\* RetryManager.requeue_with_delay up to its await asyncio.sleep(delay):
\* the counter is incremented in place and the delay computed from it.
requeue_with_delay(msg, aseguradora) ==
    LET incremented == increment_retry(msg)
    IN  /\ message' = incremented
        /\ backoff' = [delay |-> calculate_delay(incremented.retry_count),
                       elapsed |-> 0]

\* RetryManager.requeue_with_delay after the sleep: publish_task.
requeue_with_delay_resume(msg, aseguradora) ==
    publish_task(aseguradora, to_dict(msg))

\* send_to_dlq counting the DLQ publish as one more retry.
send_to_dlq_incrementing(msg, aseguradora) ==
    /\ message' = increment_retry(msg)
    /\ wire' = Append(wire,
                    [topic |-> <<"bots", "dlq", aseguradora>>,
                     payload |-> to_dict(increment_retry(msg)),
                     ok |-> connected])

\* RetryManager.send_to_dlq: one publish on the client; an exception of the
\* publish is logged and swallowed (ok tells whether it went out).
send_to_dlq(msg, aseguradora) ==
    /\ message' = msg
    /\ wire' = Append(wire,
                    [topic |-> <<"bots", "dlq", aseguradora>>,
                     payload |-> to_dict(msg),
                     ok |-> connected])

\* The record of a handle_failure call.
Decided(exception, action) ==
    [error_type |-> classify(exception),
     retry_count |-> message.retry_count,
     max_retries |-> message.max_retries,
     already |-> already_retried_immediately,
     attempt |-> attempt,
     action |-> action]

\* The broker hands the last envelope published to bots/queue/hdi to the
\* worker, which decodes it and invokes the handler.
Deliver ==
    /\ rpc = "queued"
    /\ connected
    /\ message' = from_dict(wire[Len(wire)].payload)
    /\ already_retried_immediately' = FALSE
    /\ attempt' = 1
    /\ decision' = NoDecision
    /\ rpc' = "handler"
    /\ UNCHANGED <<backoff, connected, wire, worker_vars, api_vars>>

\* The handler returns true.
HandlerSucceeds ==
    /\ rpc = "handler"
    /\ rpc' = "completed"
    /\ UNCHANGED <<message, already_retried_immediately, attempt, decision,
                   backoff, connected, wire, worker_vars, api_vars>>

\* The handler raises and handle_failure answers IMMEDIATE_RETRY: the
\* handler is invoked once more in place.
FailImmediateRetry(exception) ==
    /\ rpc = "handler"
    /\ handle_failure(message, exception, already_retried_immediately)
          = "IMMEDIATE_RETRY"
    /\ decision' = Decided(exception, "IMMEDIATE_RETRY")
    /\ already_retried_immediately' = TRUE
    /\ attempt' = attempt + 1
    /\ UNCHANGED <<message, rpc, backoff, connected, wire, worker_vars, api_vars>>

\* The handler raises and handle_failure answers REQUEUE.
FailRequeue(exception) ==
    /\ rpc = "handler"
    /\ handle_failure(message, exception, already_retried_immediately)
          = "REQUEUE"
    /\ decision' = Decided(exception, "REQUEUE")
    /\ requeue_with_delay(message, "hdi")
    /\ rpc' = "sleeping"
    /\ UNCHANGED <<already_retried_immediately, attempt, connected, wire,
                   worker_vars, api_vars>>

\* One second of the backoff sleep passes.
Tick ==
    /\ rpc = "sleeping"
    /\ backoff.elapsed < backoff.delay
    /\ backoff' = [backoff EXCEPT !.elapsed = @ + 1]
    /\ UNCHANGED <<message, rpc, already_retried_immediately, attempt,
                   decision, connected, wire, worker_vars, api_vars>>

\* The sleep is over: requeue_with_delay publishes the envelope.
RequeuePublish ==
    /\ rpc = "sleeping"
    /\ backoff.elapsed >= backoff.delay
    /\ requeue_with_delay_resume(message, "hdi")
    /\ rpc' = IF connected THEN "queued" ELSE "lost"
    /\ UNCHANGED <<message, already_retried_immediately, attempt, decision,
                   backoff, connected, worker_vars, api_vars>>

\* The handler raises and handle_failure answers DLQ.
FailDLQ(exception) ==
    /\ rpc = "handler"
    /\ handle_failure(message, exception, already_retried_immediately)
          = "DLQ"
    /\ decision' = Decided(exception, "DLQ")
    /\ send_to_dlq(message, "hdi")
    /\ rpc' = "dlq"
    /\ UNCHANGED <<already_retried_immediately, attempt, backoff, connected,
                   worker_vars, api_vars>>

\* The worker's client loses the broker (disconnect, failed ping).
Disconnect ==
    /\ connected
    /\ rpc \in {"queued", "handler", "sleeping"}
    /\ connected' = FALSE
    /\ UNCHANGED <<message, rpc, already_retried_immediately, attempt,
                   decision, backoff, wire, worker_vars, api_vars>>

\* run_worker's reconnect loop connects again.
Reconnect ==
    /\ ~connected
    /\ connected' = TRUE
    /\ UNCHANGED <<message, rpc, already_retried_immediately, attempt,
                   decision, backoff, wire, worker_vars, api_vars>>

SomeError == [error_type |-> "RETRIABLE", error_code |-> "CAPTCHA_001"]

\* Messages without retry metadata found on bots/queue/hdi: flat legacy
\* fields, with and without job_id, a field present both at the top level
\* and in payload, and the message Job.to_mqtt_message builds.
LegacyMessages ==
    { [job_id |-> "job-1", in_strPlaca |-> "ABC123"],
      [in_strPlaca |-> "ABC123"],
      [job_id |-> "job-1",
       payload |-> [in_strPlaca |-> "XYZ789"],
       in_strPlaca |-> "ABC123",
       in_strNumDoc |-> "123"],
      [job_id |-> "job-1",
       in_strIDSolicitudAseguradora |-> "abc123xyz",
       payload |-> [in_strPlaca |-> "ABC123"],
       created_at |-> "t0",
       timestamp |-> "t0"] }

\* Envelopes found on bots/queue/hdi: the messages without retry metadata
\* and envelopes of every retry state within the bound.
InitialEnvelopes ==
    LegacyMessages
    \cup
    { [job_id |-> "job-1",
       payload |-> [in_strPlaca |-> "ABC123"],
       retry_count |-> rc,
       max_retries |-> mr,
       first_attempt_at |-> "t0",
       last_error |-> IF h = <<>> THEN None ELSE h[Len(h)],
       error_history |-> h,
       timestamp |-> "t0"] :
       rc \in 0 .. MaxRetryCount, mr \in 0 .. MaxRetryCount,
       h \in {<<>>, <<SomeError>>} }

WorkerOff ==
    /\ broker = [m \in Msgs |-> "acked"]
    /\ pc = [m \in Msgs |-> "none"]
    /\ active_count = 0
    /\ active_bots = <<>>
    /\ semaphore = max_concurrent
    /\ cpu = DEFAULT_MAX_CPU
    /\ memory = DEFAULT_MAX_MEMORY
    /\ environment = "development"
    /\ reports = [m \in Msgs |-> <<>>]
    /\ ConnOff
    /\ CookiesOff

InitRetry ==
    /\ WorkerOff
    /\ ApiOff
    /\ message = NoMessage
    /\ rpc = "queued"
    /\ already_retried_immediately = FALSE
    /\ attempt = 0
    /\ decision = NoDecision
    /\ backoff = NoBackoff
    /\ connected = TRUE
    /\ \E e \in InitialEnvelopes :
          wire = << [topic |-> get_topic("hdi"), payload |-> e, ok |-> TRUE] >>

NextRetry ==
    \/ Deliver
    \/ HandlerSucceeds
    \/ \E e \in Exceptions : FailImmediateRetry(e)
    \/ \E e \in Exceptions : FailRequeue(e)
    \/ Tick
    \/ RequeuePublish
    \/ \E e \in Exceptions : FailDLQ(e)
    \/ Disconnect
    \/ Reconnect

SpecRetry == InitRetry /\ [][NextRetry]_vars

(* ======================= DLQ manager (SpecDlq) ======================== *)

\* Bytes that are no JSON document.
Garbage == [raw |-> "{not json"]

\* Whether json.loads accepts the payload.
valid_json(payload) == "raw" \notin DOMAIN payload

\* json.loads on a payload it accepts: the document as a dict.
json_loads(payload) == [k \in DOMAIN payload |-> payload[k]]

\* Messages published to bots/dlq/<vendor>.
MaxDlqMsgs == 2

\* POST /api/dlq/{job_id}/retry requests.
MaxRetryCalls == 2

\* qos of client.subscribe("bots/dlq/#"): none is passed, the client's
\* default applies.
DLQ_SUBSCRIBE_QOS == 0

\* qos=1 of the publish in send_to_dlq.
DLQ_PUBLISH_QOS == 1

Min(a, b) == IF a <= b THEN a ELSE b

\* QoS at which the broker forwards a DLQ message to the subscriber.
GrantedQos == Min(DLQ_PUBLISH_QOS, DLQ_SUBSCRIBE_QOS)

DlqJobIds == {"job-1", "job-2"}

DlqVendors == {"hdi", "sbs"}

\* The envelope of a job that exhausted its retries, as send_to_dlq
\* serialises it.
DlqEnvelope(job_id) ==
    to_dict([job_id |-> job_id,
             payload |-> [in_strPlaca |-> "ABC123"],
             retry_count |-> DEFAULT_MAX_RETRIES,
             max_retries |-> DEFAULT_MAX_RETRIES,
             first_attempt_at |-> "t0",
             last_error |-> SomeError,
             error_history |-> <<SomeError>>])

DlqTopic(aseguradora) == <<"bots", "dlq", aseguradora>>

PublishedToDlq == {i \in 1 .. Len(wire) : wire[i].topic[2] = "dlq"}

Range(seq) == {seq[i] : i \in 1 .. Len(seq)}

\* list.remove(x): the first occurrence goes.
Remove(seq, x) ==
    LET i == CHOOSE i \in 1 .. Len(seq) :
                 seq[i] = x /\ \A k \in 1 .. i - 1 : seq[k] # x
    IN  SubSeq(seq, 1, i - 1) \o SubSeq(seq, i + 1, Len(seq))

\* Position of a vendor's list in by_aseguradora, 0 if it has none.
ByPos(by, aseguradora) ==
    IF \E i \in 1 .. Len(by) : by[i].aseguradora = aseguradora
    THEN CHOOSE i \in 1 .. Len(by) : by[i].aseguradora = aseguradora
    ELSE 0

\* by_aseguradora[aseguradora] on the defaultdict: a missing key is
\* inserted with an empty list.
ByTouch(by, aseguradora) ==
    IF ByPos(by, aseguradora) = 0
    THEN Append(by, [aseguradora |-> aseguradora, job_ids |-> <<>>])
    ELSE by

\* The insertion of _subscribe_to_dlq without its membership test.
ByAdd_appending(by, aseguradora, job_id) ==
    LET touched == ByTouch(by, aseguradora)
        i == ByPos(touched, aseguradora)
    IN  [touched EXCEPT ![i].job_ids = Append(@, job_id)]

\* _subscribe_to_dlq: append job_id to the vendor's list unless present.
ByAdd(by, aseguradora, job_id) ==
    LET touched == ByTouch(by, aseguradora)
        i == ByPos(touched, aseguradora)
    IN  IF job_id \in Range(touched[i].job_ids) THEN touched
        ELSE [touched EXCEPT ![i].job_ids = Append(@, job_id)]

\* retry_message: remove job_id from the vendor's list if present.
ByRemove(by, aseguradora, job_id) ==
    LET touched == ByTouch(by, aseguradora)
        i == ByPos(touched, aseguradora)
    IN  IF job_id \in Range(touched[i].job_ids)
        THEN [touched EXCEPT ![i].job_ids = Remove(@, job_id)]
        ELSE touched

\* retry_message: the first vendor, in insertion order, whose list holds
\* job_id; "None" if there is none.
FindAseguradora(by, job_id) ==
    LET holders == {i \in 1 .. Len(by) : job_id \in Range(by[i].job_ids)}
    IN  IF holders = {} THEN "None"
        ELSE by[CHOOSE i \in holders : \A k \in holders : i <= k].aseguradora

\* JobMessage.reset_for_retry leaving error_history and last_error.
reset_for_retry_keeping_history(msg) == [msg EXCEPT !.retry_count = 0]

\* JobMessage.reset_for_retry
reset_for_retry(msg) ==
    [msg EXCEPT !.retry_count = 0, !.error_history = <<>>, !.last_error = None]

\* A retry manager publishes the envelope of job_id to bots/dlq/<vendor>.
\* The broker forwards it to the subscriber if it is online; if it is
\* offline the broker keeps it in the session of dlq-manager when the
\* granted QoS is 1, and at QoS 0 only if the broker is set up to.
DlqPublish(job_id, aseguradora) ==
    /\ Cardinality(PublishedToDlq) < MaxDlqMsgs
    /\ wire' = Append(wire, [topic |-> DlqTopic(aseguradora),
                             payload |-> DlqEnvelope(job_id),
                             ok |-> TRUE])
    /\ IF subscriber = "online"
       THEN /\ inbox' = Append(inbox, Len(wire) + 1)
            /\ UNCHANGED session
       ELSE IF session.exists /\ (GrantedQos >= 1 \/ session.keeps_qos0)
       THEN /\ session' = [session EXCEPT !.queue = Append(@, Len(wire) + 1)]
            /\ UNCHANGED inbox
       ELSE UNCHANGED <<session, inbox>>
    /\ UNCHANGED <<messages, by_aseguradora, subscriber, stored, retry_call, rival_call,
                   calls, worker_vars, retry_vars,
                   health_vars>>

\* _subscribe_to_dlq: the client dlq-manager connects with
\* clean_session=False and subscribes; the broker hands over what the
\* session kept.
SubscriberConnect ==
    /\ subscriber = "offline"
    /\ subscriber' = "online"
    /\ session' = [session EXCEPT
                      !.exists = TRUE,
                      !.queue = <<>>,
                      !.since = IF session.exists THEN @ ELSE Len(wire)]
    /\ inbox' = inbox \o session.queue
    /\ UNCHANGED <<messages, by_aseguradora, stored, retry_call, rival_call, calls, wire,
                   worker_vars, retry_vars,
                   health_vars>>

\* The subscriber loses the broker (or the process restarts the task):
\* _subscribe_to_dlq logs and sleeps 5 s before it connects again.
SubscriberDisconnect ==
    /\ subscriber = "online"
    /\ inbox = <<>>
    /\ subscriber' = "offline"
    /\ UNCHANGED <<messages, by_aseguradora, session, inbox, stored,
                   retry_call, rival_call, calls, wire, worker_vars, retry_vars,
                   health_vars>>

\* _subscribe_to_dlq: one message of client.messages is decoded and stored.
Store ==
    /\ inbox # <<>>
    /\ valid_json(wire[Head(inbox)].payload)
    /\ LET i == Head(inbox)
           aseguradora == wire[i].topic[3]
           job_message == from_dict(wire[i].payload)
       IN  /\ messages' = DictSet(messages, job_message.job_id, job_message)
           /\ by_aseguradora' =
                 ByAdd(by_aseguradora, aseguradora, job_message.job_id)
           /\ stored' = stored \cup {i}
    /\ inbox' = Tail(inbox)
    /\ UNCHANGED <<subscriber, session, retry_call, rival_call, calls, wire, worker_vars,
                   retry_vars,
                   health_vars>>

\* retry_message: job_id is not in messages, or in no vendor's list:
\* False, and retry_dlq_message answers 404.  The route takes job_id only:
\* the Authorization header of the request (token) is read by nothing.
RetryNotFound(job_id, token) ==
    /\ retry_call.pc = "idle"
    /\ calls < MaxRetryCalls
    /\ \/ job_id \notin DOMAIN messages
       \/ FindAseguradora(by_aseguradora, job_id) = "None"
    /\ retry_call' = [pc |-> "done", job_id |-> job_id, token |-> token,
                      found |-> NoMessage,
                      aseguradora |-> "None", message |-> NoMessage,
                      result |-> FALSE, status |-> 404]
    /\ calls' = calls + 1
    /\ UNCHANGED rival_call
    /\ UNCHANGED <<messages, by_aseguradora, subscriber, session, inbox,
                   stored, wire, worker_vars, retry_vars,
                   health_vars>>

\* retry_message up to the connection of the dlq-retry client: the stored
\* JobMessage is looked up and reset in place.  As in RetryNotFound, token
\* is the request's Authorization header, which the route never reads.
RetryReset(job_id, token) ==
    /\ retry_call.pc = "idle"
    /\ calls < MaxRetryCalls
    /\ job_id \in DOMAIN messages
    /\ FindAseguradora(by_aseguradora, job_id) # "None"
    /\ messages' = [messages EXCEPT ![job_id] = reset_for_retry(@)]
    /\ retry_call' = [pc |-> "publishing", job_id |-> job_id,
                      token |-> token, found |-> messages[job_id],
                      aseguradora |-> FindAseguradora(by_aseguradora, job_id),
                      message |-> reset_for_retry(messages[job_id]),
                      result |-> FALSE, status |-> 0]
    /\ calls' = calls + 1
    /\ UNCHANGED rival_call
    /\ UNCHANGED <<by_aseguradora, subscriber, session, inbox, stored, wire,
                   worker_vars, retry_vars,
                   health_vars>>

\* retry_message: the publish went out; the job leaves both maps; True,
\* and retry_dlq_message answers 200.
RetryPublishOk ==
    /\ retry_call.pc = "publishing"
    /\ wire' = Append(wire, [topic |-> get_topic(retry_call.aseguradora),
                             payload |-> to_dict(retry_call.message),
                             ok |-> TRUE])
    /\ messages' = DictPop(messages, retry_call.job_id)
    /\ by_aseguradora' =
          ByRemove(by_aseguradora, retry_call.aseguradora, retry_call.job_id)
    /\ retry_call' = [retry_call EXCEPT !.pc = "done", !.result = TRUE,
                                        !.status = 200]
    /\ UNCHANGED rival_call
    /\ UNCHANGED <<subscriber, session, inbox, stored, calls, worker_vars,
                   retry_vars,
                   health_vars>>

\* retry_message: connecting the dlq-retry client or the publish raised;
\* the exception is logged; False, and retry_dlq_message answers 404.
RetryPublishFails ==
    /\ retry_call.pc = "publishing"
    /\ retry_call' = [retry_call EXCEPT !.pc = "done", !.result = FALSE,
                                        !.status = 404]
    /\ UNCHANGED rival_call
    /\ UNCHANGED <<messages, by_aseguradora, subscriber, session, inbox,
                   stored, calls, wire, worker_vars, retry_vars,
                   health_vars>>

\* The response has been sent.
RetryReturn ==
    /\ retry_call.pc = "done"
    /\ retry_call' = NoCall
    /\ UNCHANGED rival_call
    /\ UNCHANGED <<messages, by_aseguradora, subscriber, session, inbox,
                   stored, calls, wire, worker_vars, retry_vars,
                   health_vars>>

InitDlq ==
    /\ WorkerOff
    /\ RetryOff
    /\ wire = <<>>
    /\ messages = <<>>
    /\ by_aseguradora = <<>>
    /\ subscriber = "offline"
    /\ \E keeps \in BOOLEAN :
          session = [exists |-> FALSE, queue |-> <<>>, keeps_qos0 |-> keeps,
                     since |-> 0]
    /\ inbox = <<>>
    /\ stored = {}
    /\ retry_call = NoCall
    /\ rival_call = NoCall
    /\ calls = 0
    /\ HealthOff

NextDlq ==
    \/ \E j \in DlqJobIds, v \in DlqVendors : DlqPublish(j, v)
    \/ SubscriberConnect
    \/ SubscriberDisconnect
    \/ Store
    \/ \E j \in DlqJobIds, t \in Tokens : RetryNotFound(j, t)
    \/ \E j \in DlqJobIds, t \in Tokens : RetryReset(j, t)
    \/ RetryPublishOk
    \/ RetryPublishFails
    \/ RetryReturn

SpecDlq == InitDlq /\ [][NextDlq]_vars

(* ================ concurrent DLQ retries (SpecDlqRace) ================ *)

race_rest == <<subscriber, session, inbox, stored, retry_call, worker_vars,
               retry_vars, health_vars>>

\* A second request runs retry_message while the first is in progress:
\* job_id is not in messages, or in no vendor's list: False, 404.
RivalNotFound(job_id) ==
    /\ retry_call.pc # "idle"
    /\ rival_call.pc = "idle"
    /\ calls < MaxRetryCalls
    /\ \/ job_id \notin DOMAIN messages
       \/ FindAseguradora(by_aseguradora, job_id) = "None"
    /\ rival_call' = [pc |-> "done", job_id |-> job_id, found |-> NoMessage,
                      aseguradora |-> "None", message |-> NoMessage,
                      result |-> FALSE, status |-> 404]
    /\ calls' = calls + 1
    /\ UNCHANGED <<messages, by_aseguradora, wire, race_rest>>

\* The second request's retry_message up to the connection of its
\* dlq-retry client: lookup under the lock, reset of the stored object.
RivalReset(job_id) ==
    /\ retry_call.pc # "idle"
    /\ rival_call.pc = "idle"
    /\ calls < MaxRetryCalls
    /\ job_id \in DOMAIN messages
    /\ FindAseguradora(by_aseguradora, job_id) # "None"
    /\ messages' = [messages EXCEPT ![job_id] = reset_for_retry(@)]
    /\ rival_call' = [pc |-> "publishing", job_id |-> job_id,
                      found |-> messages[job_id],
                      aseguradora |-> FindAseguradora(by_aseguradora, job_id),
                      message |-> reset_for_retry(messages[job_id]),
                      result |-> FALSE, status |-> 0]
    /\ calls' = calls + 1
    /\ UNCHANGED <<by_aseguradora, wire, race_rest>>

\* The second request's publish went out; pop and remove under the lock
\* (both tolerate a job that is already gone); True, 200.
RivalPublishOk ==
    /\ rival_call.pc = "publishing"
    /\ wire' = Append(wire, [topic |-> get_topic(rival_call.aseguradora),
                             payload |-> to_dict(rival_call.message),
                             ok |-> TRUE])
    /\ messages' = DictPop(messages, rival_call.job_id)
    /\ by_aseguradora' =
          ByRemove(by_aseguradora, rival_call.aseguradora, rival_call.job_id)
    /\ rival_call' = [rival_call EXCEPT !.pc = "done", !.result = TRUE,
                                        !.status = 200]
    /\ UNCHANGED <<calls, race_rest>>

\* The second request's connect or publish raised: False, 404.
RivalPublishFails ==
    /\ rival_call.pc = "publishing"
    /\ rival_call' = [rival_call EXCEPT !.pc = "done", !.result = FALSE,
                                        !.status = 404]
    /\ UNCHANGED <<messages, by_aseguradora, calls, wire, race_rest>>

\* The second response has been sent.
RivalReturn ==
    /\ rival_call.pc = "done"
    /\ rival_call' = NoCall
    /\ UNCHANGED <<messages, by_aseguradora, calls, wire, race_rest>>

NextRace ==
    \/ NextDlq
    \/ \E j \in DlqJobIds : RivalNotFound(j)
    \/ \E j \in DlqJobIds : RivalReset(j)
    \/ RivalPublishOk
    \/ RivalPublishFails
    \/ RivalReturn

SpecDlqRace == InitDlq /\ [][NextRace]_vars

\* The API process is restarted: DLQManager.__init__ builds empty maps,
\* start() creates a new subscriber task, and whatever the old process
\* held in memory (received messages, a retry request in progress) is
\* gone.  stored, the record of what was ever indexed, is kept.
ManagerRestart ==
    /\ messages' = <<>>
    /\ by_aseguradora' = <<>>
    /\ subscriber' = "offline"
    /\ inbox' = <<>>
    /\ retry_call' = NoCall
    /\ rival_call' = NoCall
    /\ <<messages, by_aseguradora, subscriber, inbox, retry_call>>
          # <<messages', by_aseguradora', subscriber', inbox', retry_call'>>
    /\ UNCHANGED <<session, stored, calls, wire, worker_vars, retry_vars,
                   health_vars>>

NextRestart ==
    \/ NextDlq
    \/ ManagerRestart

SpecRestart == InitDlq /\ [][NextRestart]_vars

(* ================== health and ingress routes (SpecApi) ================ *)

\* Seconds the clock runs for.
MaxTime == 35

TimeSteps == {PING_TIMEOUT, TTL_DEGRADED}

\* cache["is_alive"]: None, True or False.
IsAlive(b) == IF b THEN "True" ELSE "False"

HealthStatus(is_alive) == IF is_alive THEN "healthy" ELSE "degraded"

\* The test of _get_mqtt_status for a real ping, at time t.
cache_expired(t) ==
    cache.is_alive = "None" \/ (t - cache.last_check) >= cache.ttl

\* The cache after a real ping made by a request that read the clock at t.
cache_update(is_alive, t) ==
    [is_alive |-> IsAlive(is_alive), last_check |-> t,
     ttl |-> IF ~is_alive THEN TTL_DEGRADED ELSE TTL_HEALTHY]

\* GET /health up to its first suspension: the cached answer, or
\* MQTTService.ping, which answers False at once when the client is not
\* connected and otherwise waits for the heartbeat publish.
HealthCheck(r) ==
    /\ requests[r].pc = "idle"
    /\ IF ~cache_expired(now)
       THEN /\ requests' = [requests EXCEPT ![r] =
                   [pc |-> "done", now |-> 0, probed |-> FALSE,
                    pinged |-> FALSE,
                    status |-> HealthStatus(cache.is_alive = "True")]]
            /\ UNCHANGED <<cache, last_probe>>
       ELSE IF ~connected
       THEN /\ cache' = cache_update(FALSE, now)
            /\ requests' = [requests EXCEPT ![r] =
                   [pc |-> "done", now |-> 0, probed |-> TRUE,
                    pinged |-> FALSE, status |-> HealthStatus(FALSE)]]
            /\ last_probe' = now
       ELSE /\ requests' = [requests EXCEPT ![r] =
                   [pc |-> "pinging", now |-> now, probed |-> TRUE,
                    pinged |-> TRUE, status |-> "none"]]
            /\ last_probe' = now
            /\ cache' = cache
    /\ UNCHANGED <<now, broker_up, response, connected, wire, worker_vars,
                   message, rpc, already_retried_immediately, attempt,
                   decision, backoff, dlq_vars>>

\* The heartbeat publish of ping completes, or fails or times out; the
\* request then writes the cache with the time it read on entry.
PingReturns(r) ==
    /\ requests[r].pc = "pinging"
    /\ cache' = cache_update(broker_up, requests[r].now)
    /\ connected' = IF broker_up THEN connected ELSE FALSE
    /\ requests' = [requests EXCEPT ![r].pc = "done", ![r].now = 0,
                                    ![r].status = HealthStatus(broker_up)]
    /\ UNCHANGED <<now, broker_up, last_probe, response, wire, worker_vars,
                   message, rpc, already_retried_immediately, attempt,
                   decision, backoff, dlq_vars>>

\* The response has been sent.
HealthReturn(r) ==
    /\ requests[r].pc = "done"
    /\ requests' = [requests EXCEPT ![r] = NoRequest]
    /\ UNCHANGED <<cache, now, broker_up, last_probe, response, wire,
                   worker_vars, retry_vars, dlq_vars>>

\* The clock moves on; a ping in flight ends within its timeout.
Advance(d) ==
    /\ now + d <= MaxTime
    /\ \A r \in Requests :
          requests[r].pc = "pinging" =>
              now + d - requests[r].now <= PING_TIMEOUT
    /\ now' = now + d
    /\ UNCHANGED <<cache, broker_up, requests, last_probe, response, wire,
                   worker_vars, retry_vars, dlq_vars>>

BrokerDown ==
    /\ broker_up
    /\ broker_up' = FALSE
    /\ UNCHANGED <<cache, now, requests, last_probe, response, wire,
                   worker_vars, retry_vars, dlq_vars>>

BrokerUp ==
    /\ ~broker_up
    /\ broker_up' = TRUE
    /\ UNCHANGED <<cache, now, requests, last_probe, response, wire,
                   worker_vars, retry_vars, dlq_vars>>

(* ------------------------------ ingress ------------------------------- *)

Aseguradora ==
    {"hdi", "sura", "axa", "allianz", "bolivar", "equidad", "mundial",
     "sbs", "solidaria", "runt"}

\* Path parameters tried.
VendorInputs == {"hdi", "HDI", "sbs", "aseguradora_fake"}

\* Request bodies tried: the nested and the flat format.
Bodies ==
    {[in_strIDSolicitudAseguradora |-> "abc123",
      payload |-> [in_strPlaca |-> "ABC123"]],
     [in_strIDSolicitudAseguradora |-> "abc123", in_strPlaca |-> "ABC123"]}

\* JobCreate.__init__: the fields of the parsed body.
JobCreate(data) ==
    [in_strIDSolicitudAseguradora |-> data.in_strIDSolicitudAseguradora,
     payload |-> IF "payload" \in DOMAIN data
                 THEN data.payload
                 ELSE [k \in DOMAIN data \ {"in_strIDSolicitudAseguradora"}
                          |-> data[k]]]

\* Job(**kwargs): in_strIDSolicitudAseguradora is required.
JobValid(kwargs) == "in_strIDSolicitudAseguradora" \in DOMAIN kwargs

to_mqtt_message(job) ==
    [job_id |-> job.job_id,
     in_strIDSolicitudAseguradora |-> job.in_strIDSolicitudAseguradora,
     payload |-> job.payload,
     created_at |-> "now"]

\* Required keys of HDIPayload.
HDIPayload ==
    {"in_strTipoIdentificacionAsesorUsuario", "in_strUsuarioAsesor",
     "in_strContrasenaAsesor", "in_strTipoDoc", "in_strNumDoc",
     "in_strNombre", "in_strApellido", "in_strGenero",
     "in_strDiaNacimiento", "in_strMesNacimiento", "in_strAnioNacimiento",
     "in_strPlaca", "in_strUsoVehiculo", "in_strModelo",
     "in_strCodFasecolda", "in_strMarca", "in_strVersion", "in_strTipo",
     "in_strCiudadMovilidad", "in_strTipoPlaca", "in_strKmVehiculo",
     "in_strValorFactura"}

\* Required keys of SBSPayload.
SBSPayload ==
    {"in_strTipoIdentificacionAsesorUsuario", "in_strUsuarioAsesor",
     "in_strContrasenaAsesor", "in_strTipoDoc", "in_strNumDoc",
     "in_strEmail", "in_strCelular", "in_strPlaca", "in_strKmVehiculo",
     "in_strCodigoFasecolda", "in_strModelo"}

\* INSURANCE_SCHEMAS, for the vendors requested here.
INSURANCE_SCHEMAS == [a \in {"hdi", "sbs"} |->
                         IF a = "hdi" THEN HDIPayload ELSE SBSPayload]

\* PayloadValidator.validate: whether schema(**payload) is accepted.
validate(aseguradora, payload) ==
    INSURANCE_SCHEMAS[aseguradora] \subseteq DOMAIN payload

\* POST /api/cotizaciones/{aseguradora} with a valid token and body.
crear_cotizacion(aseguradora, body) ==
    LET data == JobCreate(body)
        aseguradora_lower == lower(aseguradora)
        answer(code, sent) ==
            response' = [status |-> code, aseguradora |-> aseguradora,
                         published |-> sent, payload |-> data.payload]
    IN  IF aseguradora_lower \notin Aseguradora
        THEN answer(400, FALSE) /\ wire' = wire
        ELSE IF "solicitud_aseguradora_id" \notin DOMAIN data
        THEN answer(500, FALSE) /\ wire' = wire
        ELSE LET kwargs == [aseguradora |-> aseguradora_lower,
                            solicitud_aseguradora_id |->
                                data.solicitud_aseguradora_id,
                            payload |-> data.payload]
             IN  IF ~JobValid(kwargs)
                 THEN answer(500, FALSE) /\ wire' = wire
                 ELSE /\ publish_task(aseguradora_lower,
                             to_mqtt_message(
                                 [job_id |-> "job-1"] @@ kwargs))
                      /\ answer(IF connected THEN 202 ELSE 503, connected)

Cotizar(aseguradora, body) ==
    /\ crear_cotizacion(aseguradora, body)
    /\ UNCHANGED <<cache, now, broker_up, requests, last_probe, worker_vars,
                   retry_vars, dlq_vars>>

InitApi ==
    /\ WorkerOff
    /\ RetryOff
    /\ DlqOff
    /\ HealthOff
    /\ wire = <<>>

NextApi ==
    \/ \E r \in Requests : HealthCheck(r)
    \/ \E r \in Requests : PingReturns(r)
    \/ \E r \in Requests : HealthReturn(r)
    \/ \E d \in TimeSteps : Advance(d)
    \/ BrokerDown
    \/ BrokerUp
    \/ \E a \in VendorInputs, b \in Bodies : Cotizar(a, b)

SpecApi == InitApi /\ [][NextApi]_vars

(* =================== worker reconnect loop (SpecConn) ================= *)

\* Jobs published for the worker in one behaviour.
MaxJobs == 2

\* reconnect_interval of run_worker, in seconds.
reconnect_interval == 5

\* What a publisher may put on a queue topic: two jobs and garbage.
JobPayloads == {[job_id |-> "job-1", payload |-> "p1"],
                [job_id |-> "job-2", payload |-> "p2"],
                Garbage}

wildcard_topic == <<"bots", "queue", "+">>

get_shared_topic(topic) == <<"$share", "workers">> \o topic

\* run_worker is started without aseguradora: it listens to every vendor.
shared_topic == get_shared_topic(wildcard_topic)

\* The worker holds a live client that subscribed to its shared topic and
\* is iterating over its messages.
Subscribed ==
    /\ wloop = "consuming"
    /\ client = "live"
    /\ shared_topic \in subscriptions

conn_rest == <<broker, pc, active_count, active_bots, semaphore, cpu, memory,
               report_vars, cookie_vars, retry_vars, wire, dlq_vars, cache, now,
               requests,
               last_probe, response>>

\* MQTTService.disconnect: nothing when not connected; else the offline
\* status is published (failures swallowed) and the client is left with
\* __aexit__; only when that returns are _connected and _subscriptions
\* reset; an MqttError it raises is logged and the fields stay as they are.
disconnect ==
    IF ~mqtt_connected \/ client = "None"
    THEN [connected |-> mqtt_connected, subscriptions |-> subscriptions]
    ELSE IF client = "lost" /\ aexit_raises
    THEN [connected |-> mqtt_connected, subscriptions |-> subscriptions]
    ELSE [connected |-> FALSE, subscriptions |-> {}]

\* `async with mqtt` -> connect: returns at once when _connected is set;
\* else a new client is created and entered, and _connected is set.
WorkerConnect ==
    /\ wloop = "connecting"
    /\ mqtt_connected \/ broker_up
    /\ IF mqtt_connected
       THEN UNCHANGED <<client, mqtt_connected>>
       ELSE client' = "live" /\ mqtt_connected' = TRUE
    /\ wloop' = "subscribing"
    /\ UNCHANGED <<subscriptions, wsleep, jobs, aexit_raises, broker_up,
                   conn_rest>>

\* connect: entering the new client raises MqttError, which connect raises
\* again; run_worker catches it and goes to sleep.
WorkerConnectFails ==
    /\ wloop = "connecting"
    /\ ~mqtt_connected
    /\ ~broker_up
    /\ client' = "lost"
    /\ wloop' = "sleeping"
    /\ wsleep' = 0
    /\ UNCHANGED <<mqtt_connected, subscriptions, jobs, aexit_raises,
                   broker_up, conn_rest>>

\* subscribe(shared_topic): False when not connected or when the client
\* raises MqttError; run_worker ignores the result and goes on to
\* mqtt.messages().
WorkerSubscribe ==
    /\ wloop = "subscribing"
    /\ subscriptions' =
          IF mqtt_connected /\ client = "live" /\ broker_up
          THEN subscriptions \cup {shared_topic}
          ELSE subscriptions
    /\ wloop' = "consuming"
    /\ UNCHANGED <<client, mqtt_connected, wsleep, jobs, aexit_raises,
                   broker_up, conn_rest>>

\* A publisher puts a payload on bots/queue/<vendor>.
JobPublish(payload) ==
    /\ broker_up
    /\ Len(jobs.published) < MaxJobs
    /\ jobs' = [jobs EXCEPT !.published = Append(@, payload)]
    /\ UNCHANGED <<wloop, client, mqtt_connected, subscriptions, wsleep,
                   aexit_raises, broker_up, conn_rest>>

\* A message yielded by mqtt.messages() under the json.loads of the
\* mutant, which takes any bytes.
messages_yield_any(payload) == <<payload>>

\* MQTTService.messages on one message of client.messages: what it yields
\* for it; nothing when json.loads raised (logged, the loop goes on).
messages_yield(payload) ==
    IF valid_json(payload) THEN <<json_loads(payload)>> ELSE <<>>

\* `async for msg_topic, data in mqtt.messages()`: the client receives
\* the next message; if it decodes it is handed to a handle_task task.
Consume ==
    /\ Subscribed
    /\ broker_up
    /\ jobs.received < Len(jobs.published)
    /\ valid_json(jobs.published[jobs.received + 1])
    /\ jobs' = [jobs EXCEPT
                   !.received = @ + 1,
                   !.consumed =
                       @ \o messages_yield(jobs.published[jobs.received + 1])]
    /\ UNCHANGED <<wloop, client, mqtt_connected, subscriptions, wsleep,
                   aexit_raises, broker_up, conn_rest>>

\* mqtt.messages(): the next message is not JSON; JSONDecodeError is
\* logged inside the generator and the iteration goes on.
ConsumeSkip ==
    /\ Subscribed
    /\ broker_up
    /\ jobs.received < Len(jobs.published)
    /\ ~valid_json(jobs.published[jobs.received + 1])
    /\ jobs' = [jobs EXCEPT
                   !.received = @ + 1,
                   !.consumed =
                       @ \o messages_yield(jobs.published[jobs.received + 1])]
    /\ UNCHANGED <<wloop, client, mqtt_connected, subscriptions, wsleep,
                   aexit_raises, broker_up, conn_rest>>

\* The transport of the worker's client breaks.
TransportError ==
    /\ client = "live"
    /\ client' = "lost"
    /\ UNCHANGED <<wloop, mqtt_connected, subscriptions, wsleep, jobs,
                   aexit_raises, broker_up, conn_rest>>

\* mqtt.messages() raises on the lost client; leaving `async with mqtt`
\* runs disconnect; `except Exception` logs and starts the sleep.
ConsumeFails ==
    /\ wloop = "consuming"
    /\ client # "live"
    /\ mqtt_connected' = disconnect.connected
    /\ subscriptions' = disconnect.subscriptions
    /\ wloop' = "sleeping"
    /\ wsleep' = 0
    /\ UNCHANGED <<client, jobs, aexit_raises, broker_up, conn_rest>>

\* One second of asyncio.sleep(reconnect_interval) passes.
SleepTick ==
    /\ wloop = "sleeping"
    /\ wsleep < reconnect_interval
    /\ wsleep' = wsleep + 1
    /\ UNCHANGED <<wloop, client, mqtt_connected, subscriptions, jobs,
                   aexit_raises, broker_up, conn_rest>>

\* The sleep is over: `while True` starts the next round.
WorkerWake ==
    /\ wloop = "sleeping"
    /\ wsleep = reconnect_interval
    /\ wloop' = "connecting"
    /\ UNCHANGED <<client, mqtt_connected, subscriptions, wsleep, jobs,
                   aexit_raises, broker_up, conn_rest>>

InitConn ==
    /\ broker = [m \in Msgs |-> "acked"]
    /\ pc = [m \in Msgs |-> "none"]
    /\ active_count = 0
    /\ active_bots = <<>>
    /\ semaphore = max_concurrent
    /\ cpu = DEFAULT_MAX_CPU
    /\ memory = DEFAULT_MAX_MEMORY
    /\ environment = "development"
    /\ reports = [m \in Msgs |-> <<>>]
    /\ wloop = "connecting"
    /\ client = "None"
    /\ mqtt_connected = FALSE
    /\ subscriptions = {}
    /\ wsleep = 0
    /\ jobs = [published |-> <<>>, received |-> 0, consumed |-> <<>>]
    /\ aexit_raises \in BOOLEAN
    /\ CookiesOff
    /\ RetryOff
    /\ DlqOff
    /\ HealthOff
    /\ wire = <<>>

NextConn ==
    \/ WorkerConnect
    \/ WorkerConnectFails
    \/ WorkerSubscribe
    \/ \E p \in JobPayloads : JobPublish(p)
    \/ Consume
    \/ ConsumeSkip
    \/ TransportError
    \/ ConsumeFails
    \/ SleepTick
    \/ WorkerWake
    \/ BrokerDown
    \/ BrokerUp

SpecConn == InitConn /\ [][NextConn]_vars

(* ====================== shutdown (SpecShutdown) ======================= *)

\* The tasks run_worker tracks in active_tasks that are not done.
PendingTasks == {m \in Msgs : pc[m] \in {"created", "running"}}

shutdown_rest == <<broker, active_count, active_bots, semaphore, cpu, memory,
                   report_vars, cookie_vars, retry_vars, wire, api_vars>>

\* run_worker is cancelled inside the try block.  Past connect, leaving
\* `async with mqtt` runs disconnect; `except asyncio.CancelledError`
\* then awaits the gather of active_tasks.
CancelInLoop ==
    /\ wloop \in {"connecting", "subscribing", "consuming"}
    /\ IF wloop = "connecting"
       THEN UNCHANGED <<client, mqtt_connected, subscriptions>>
       ELSE /\ mqtt_connected' = disconnect.connected
            /\ subscriptions' = disconnect.subscriptions
            /\ client' = IF client = "live" THEN "closed" ELSE client
    /\ wloop' = "draining"
    /\ UNCHANGED <<pc, wsleep, jobs, aexit_raises, shutdown_rest>>

\* run_worker is cancelled in asyncio.sleep(reconnect_interval): the sleep
\* is awaited inside `except Exception`, where the CancelledError clause
\* of the same try statement does not apply; the error leaves run_worker.
CancelInSleep ==
    /\ wloop = "sleeping"
    /\ wloop' = "cancelled"
    /\ UNCHANGED <<pc, client, mqtt_connected, subscriptions, wsleep, jobs,
                   aexit_raises, shutdown_rest>>

\* asyncio.gather(*active_tasks, return_exceptions=True) is over: every
\* tracked task is done; break, the final statistics are logged, return.
WorkerReturn ==
    /\ wloop = "draining"
    /\ PendingTasks = {}
    /\ wloop' = "returned"
    /\ UNCHANGED <<pc, client, mqtt_connected, subscriptions, wsleep, jobs,
                   aexit_raises, shutdown_rest>>

InitShutdown ==
    /\ broker = [m \in Msgs |-> "queued"]
    /\ pc = [m \in Msgs |-> "none"]
    /\ active_count = 0
    /\ active_bots = <<>>
    /\ semaphore = max_concurrent
    /\ cpu = DEFAULT_MAX_CPU
    /\ memory = DEFAULT_MAX_MEMORY
    /\ environment = "development"
    /\ reports = [m \in Msgs |-> <<>>]
    /\ wloop = "connecting"
    /\ client = "None"
    /\ mqtt_connected = FALSE
    /\ subscriptions = {}
    /\ wsleep = 0
    /\ jobs = [published |-> <<>>, received |-> 0, consumed |-> <<>>]
    /\ aexit_raises \in BOOLEAN
    /\ CookiesOff
    /\ RetryOff
    /\ ApiOff
    /\ wire = <<>>

NextShutdown ==
    \/ WorkerConnect
    \/ WorkerSubscribe
    \/ TransportError
    \/ ConsumeFails
    \/ SleepTick
    \/ WorkerWake
    \/ \E m \in Msgs : Receive(m)
    \/ \E m \in Msgs : StartNoBot(m)
    \/ \E m \in Msgs : StartAdmitted(m)
    \/ \E m \in Msgs : StartRejected(m)
    \/ \E m \in Msgs : RunSucceeds(m)
    \/ \E m \in Msgs : RunReturnsFalse(m)
    \/ \E m \in Msgs : RunRaises(m)
    \/ \E m \in Msgs : CancelRunning(m)
    \/ \E m \in Msgs : CancelCreated(m)
    \/ CancelInLoop
    \/ CancelInSleep
    \/ WorkerReturn

SpecShutdown == InitShutdown /\ [][NextShutdown]_vars

(* ==================== cookie writes (SpecCookies) ===================== *)

\* CookiesManager.LOCK_TIMEOUT, in seconds.
LOCK_TIMEOUT == 30

\* Time a waiting writer has spent, as it reads it at a failed attempt:
\* the attempts are 0.1 s apart at least, the samples taken here are
\* half the timeout and the whole of it apart.
WaitSteps == {LOCK_TIMEOUT \div 2, LOCK_TIMEOUT}

cookies_rest == <<broker, pc, active_count, active_bots, semaphore, cpu,
                  memory, report_vars, conn_vars, retry_vars, wire, api_vars>>

\* save up to _acquire_write_lock: the cookies are read from the driver,
\* the directory is made, start_time is taken.
SaveStart(w) ==
    /\ writers[w].pc = "idle"
    /\ writers' = [writers EXCEPT ![w].pc = "acquiring"]
    /\ UNCHANGED <<lock_file, cookies_rest>>

\* _acquire_write_lock: lock_file.touch(exist_ok=False) succeeds.
AcquireLock(w) ==
    /\ writers[w].pc = "acquiring"
    /\ ~lock_file
    /\ lock_file' = TRUE
    /\ writers' = [writers EXCEPT ![w].pc = "writing"]
    /\ UNCHANGED cookies_rest

\* _acquire_write_lock: FileExistsError, not yet timed out: sleep and try
\* again.
LockBusy(w, d) ==
    /\ writers[w].pc = "acquiring"
    /\ lock_file
    /\ writers[w].elapsed + d <= LOCK_TIMEOUT
    /\ writers' = [writers EXCEPT ![w].elapsed = @ + d]
    /\ UNCHANGED <<lock_file, cookies_rest>>

\* _acquire_write_lock: FileExistsError and elapsed > LOCK_TIMEOUT: the
\* writer logs a warning and goes on without the lock.
LockTimeout(w, d) ==
    /\ writers[w].pc = "acquiring"
    /\ lock_file
    /\ writers[w].elapsed + d > LOCK_TIMEOUT
    /\ writers' = [writers EXCEPT ![w].pc = "writing",
                                   ![w].elapsed = LOCK_TIMEOUT + 1,
                                   ![w].timed_out = TRUE]
    /\ UNCHANGED <<lock_file, cookies_rest>>

\* save: write_text is over (or raised); the finally block releases:
\* _release_write_lock removes the lock file if it exists, whoever made it.
WriteDone(w) ==
    /\ writers[w].pc = "writing"
    /\ lock_file' = FALSE
    /\ writers' = [writers EXCEPT ![w].pc = "done"]
    /\ UNCHANGED cookies_rest

\* Worker processes of one bot_id save cookies; no lock file exists.
InitCookies ==
    /\ WorkerOff
    /\ RetryOff
    /\ ApiOff
    /\ wire = <<>>

NextCookies ==
    \/ \E w \in Writers : SaveStart(w)
    \/ \E w \in Writers : AcquireLock(w)
    \/ \E w \in Writers, d \in WaitSteps : LockBusy(w, d)
    \/ \E w \in Writers, d \in WaitSteps : LockTimeout(w, d)
    \/ \E w \in Writers : WriteDone(w)

SpecCookies == InitCookies /\ [][NextCookies]_vars

(* ================= undecodable messages (SpecDecode) ================== *)

\* Some client publishes bytes that are no JSON to bots/dlq/<vendor>; the
\* broker forwards them like any DLQ message.
DlqPublishGarbage(aseguradora) ==
    /\ Cardinality(PublishedToDlq) < MaxDlqMsgs
    /\ wire' = Append(wire, [topic |-> DlqTopic(aseguradora),
                             payload |-> Garbage,
                             ok |-> TRUE])
    /\ IF subscriber = "online"
       THEN /\ inbox' = Append(inbox, Len(wire) + 1)
            /\ UNCHANGED session
       ELSE IF session.exists /\ (GrantedQos >= 1 \/ session.keeps_qos0)
       THEN /\ session' = [session EXCEPT !.queue = Append(@, Len(wire) + 1)]
            /\ UNCHANGED inbox
       ELSE UNCHANGED <<session, inbox>>
    /\ UNCHANGED <<messages, by_aseguradora, subscriber, stored, retry_call, rival_call,
                   calls, worker_vars, retry_vars, health_vars>>

\* _subscribe_to_dlq: JobMessage.from_json raises on the next message;
\* the inner `except Exception` logs it and the loop takes the next one.
StoreSkip ==
    /\ inbox # <<>>
    /\ ~valid_json(wire[Head(inbox)].payload)
    /\ inbox' = Tail(inbox)
    /\ UNCHANGED <<messages, by_aseguradora, stored, subscriber, session,
                   retry_call, rival_call, calls, wire, worker_vars, retry_vars,
                   health_vars>>

\* The worker and the DLQ subscriber over a transport that stays up, with
\* publishers that also send garbage.
InitDecode ==
    /\ InitConn
    /\ aexit_raises = FALSE

NextDecode ==
    \/ WorkerConnect
    \/ WorkerSubscribe
    \/ \E p \in JobPayloads : JobPublish(p)
    \/ Consume
    \/ ConsumeSkip
    \/ SubscriberConnect
    \/ \E j \in DlqJobIds, v \in DlqVendors : DlqPublish(j, v)
    \/ \E v \in DlqVendors : DlqPublishGarbage(v)
    \/ Store
    \/ StoreSkip

SpecDecode == InitDecode /\ [][NextDecode]_vars

(* ============================== claims ================================ *)

Running == {m \in Msgs : pc[m] = "running"}

\* The envelope the chain started from, decoded.
first_envelope == from_dict(wire[1].payload)

\* Publishes the retry manager issued to bots/queue/<vendor> (the first
\* entry of wire is the publish that queued the job).
Republishes ==
    {i \in 2 .. Len(wire) : wire[i].topic = get_topic("hdi")}

\* Publishes the retry manager issued to bots/dlq/<vendor>.
DlqPublishes ==
    {i \in 1 .. Len(wire) : wire[i].topic = <<"bots", "dlq", "hdi">>}

IsPrefix(s, t) ==
    /\ Len(s) <= Len(t)
    /\ \A i \in 1 .. Len(s) : s[i] = t[i]

\* error_history of the i-th published envelope, as a consumer decodes it.
PublishedHistory(i) == from_dict(wire[i].payload).error_history

C2_DlqIffPermanentOrExhausted ==
    decision.action # "none" =>
        ( decision.action = "DLQ"
          <=> ( \/ decision.error_type = "PERMANENT"
                \/ decision.retry_count >= decision.max_retries ) )

(* C2 amended: handle_failure returns DLQ if and only if the error type is *)
(* PERMANENT, or retry_count >= max_retries and the failure is not a       *)
(* TRANSIENT one that has not been immediately retried yet (that one is    *)
(* answered by IMMEDIATE_RETRY even with the budget exhausted).            *)
C2_DlqIffAfterImmediateRetry ==
    decision.action # "none" =>
        ( decision.action = "DLQ"
          <=> ( \/ decision.error_type = "PERMANENT"
                \/ /\ decision.retry_count >= decision.max_retries
                   /\ ~(decision.error_type = "TRANSIENT" /\ ~decision.already) ) )

\* A TRANSIENT failure with the budget exhausted, after the immediate
\* retry of the delivery: DLQ.
C2_Witness ==
    /\ decision.action = "DLQ"
    /\ decision.error_type = "TRANSIENT"
    /\ decision.already
    /\ decision.retry_count >= decision.max_retries

(* C3: handle_failure returns IMMEDIATE_RETRY if and only if the error     *)
(* type is TRANSIENT and already_retried_immediately is false; the second  *)
(* failure of a delivery never yields IMMEDIATE_RETRY, so the handler runs *)
(* at most twice per delivery.                                             *)
C3_ImmediateRetryIff ==
    /\ attempt <= 2
    /\ decision.action # "none" =>
        /\ decision.action = "IMMEDIATE_RETRY"
           <=> (decision.error_type = "TRANSIENT" /\ ~decision.already)
        /\ decision.attempt >= 2 => decision.action # "IMMEDIATE_RETRY"

\* The second TRANSIENT failure of one delivery was answered by REQUEUE.
C3_Witness ==
    /\ decision.action = "REQUEUE"
    /\ decision.error_type = "TRANSIENT"
    /\ decision.already
    /\ decision.attempt = 2

(* C4 as stated: a job whose handler raised while the slot was held has    *)
(* been passed to the retry manager and has been published to              *)
(* bots/queue/<vendor> or bots/dlq/<vendor>; it is never only logged and   *)
(* dropped.                                                                *)
C4_FailureReachesRetryManager ==
    \A m \in Msgs :
        pc[m] = "failed" =>
            /\ decision.action # "none"
            /\ \E i \in 1 .. Len(wire) :
                  from_dict(wire[i].payload).job_id = TaskJobId(m)

(* C5: admission bound.  The number of tasks inside the scoped block of    *)
(* acquire_slot is at most max_concurrent and equals active_bots.          *)
C5_AdmissionBound ==
    /\ Cardinality(Running) <= max_concurrent
    /\ active_count = Cardinality(Running)

\* The worker is saturated and one more task is about to ask for a slot.
C5_Witness ==
    /\ Cardinality(Running) = max_concurrent
    /\ \E m \in Msgs : pc[m] = "created" /\ get_bot_class(TaskAseguradora(m)) # "None"

(* C6 as stated: a message whose task was rejected with                    *)
(* ResourceUnavailableError is not acknowledged to the broker (so that the *)
(* broker redelivers it).                                                  *)
C6_RejectedNotAcknowledged ==
    \A m \in Msgs : pc[m] = "rejected" => broker[m] # "acked"

(* C7: acquire_slot admits the caller if and only if active_count <        *)
(* max_concurrent and the CPU sample <= max_cpu and the memory percentage  *)
(* <= max_memory; otherwise it raises ResourceUnavailableError and leaves  *)
(* active_count and the active-job index unchanged.                        *)
C7_AdmitIff ==
    [][ \A m \in Msgs :
          (pc[m] = "created" /\ pc'[m] \in {"running", "rejected"}) =>
            /\ pc'[m] = "running"
               <=> ( /\ active_count < max_concurrent
                     /\ cpu <= DEFAULT_MAX_CPU
                     /\ memory <= DEFAULT_MAX_MEMORY )
            /\ pc'[m] = "rejected" =>
                  (active_count' = active_count /\ active_bots' = active_bots)
            /\ pc'[m] = "running" =>
                  /\ active_count' = active_count + 1
                  /\ TaskJobId(m) \in DOMAIN active_bots' ]_vars

\* The first task that asked for a slot was rejected although no slot was
\* taken (CPU or memory above its threshold), and a later one was admitted.
C7_Witness ==
    /\ pc[2] = "rejected"
    /\ pc[3] = "running"
    /\ \A m \in Msgs : m > 3 => pc[m] = "none"

(* C8 as stated: while a task is inside the scoped block of acquire_slot,  *)
(* active_bots counts it and its job_id is in the active-job index; once   *)
(* the block is left (return, exception, cancellation) the count is back   *)
(* and the job_id is gone: the index holds job_ids of running tasks only.  *)
C8_SlotHeldThenReleased ==
    /\ active_count = Cardinality(Running)
    /\ \A m \in Running : TaskJobId(m) \in DOMAIN active_bots
    /\ \A j \in DOMAIN active_bots : \E m \in Running : TaskJobId(m) = j

(* C9 as stated: the envelope that the retry manager publishes by REQUEUE  *)
(* or by DLQ carries the classified error of the failure that triggered    *)
(* the publish as the last element of error_history and as last_error.     *)
C9_PublishedCarriesError ==
    ( /\ decision.action \in {"REQUEUE", "DLQ"}
      /\ rpc \in {"queued", "dlq"} )
    => LET env == from_dict(wire[Len(wire)].payload)
           h == env.error_history
       IN  /\ h # <<>>
           /\ h[Len(h)].error_type = decision.error_type
           /\ env.last_error = h[Len(h)]

(* C10: error history is append-only.  For any two consecutive envelopes   *)
(* published along the retry chain of a job, the error_history of the      *)
(* earlier one is a prefix of the error_history of the later one.          *)
C10_HistoryPrefix ==
    \A i \in 1 .. Len(wire) - 1 :
        IsPrefix(PublishedHistory(i), PublishedHistory(i + 1))

\* An envelope with a non-empty history was requeued twice.
C10_Witness ==
    /\ Len(wire) >= 3
    /\ PublishedHistory(1) # <<>>
    /\ wire[3].topic = get_topic("hdi")

\* retry_count of the i-th published envelope, as a consumer decodes it.
PublishedRetryCount(i) == from_dict(wire[i].payload).retry_count

(* C11: retry monotonicity.  Along the retry chain of a job (requeues and  *)
(* the final DLQ publish, no DLQ retry reset) retry_count never decreases  *)
(* between successive envelopes on the wire, and the envelope in hand      *)
(* never carries less than the last one published.                         *)
C11_RetryMonotone ==
    /\ \A i \in 1 .. Len(wire) - 1 :
          PublishedRetryCount(i) <= PublishedRetryCount(i + 1)
    /\ rpc \in {"handler", "sleeping", "dlq", "lost", "completed"} =>
          message.retry_count >= PublishedRetryCount(Len(wire))

\* An envelope that started at retry_count 1 was requeued with 2 and then
\* published to the DLQ, still with 2.
C11_Witness ==
    /\ Len(wire) = 3
    /\ PublishedRetryCount(1) = 1
    /\ PublishedRetryCount(2) = 2
    /\ PublishedRetryCount(3) = 2
    /\ wire[3].topic = <<"bots", "dlq", "hdi">>

(* C12: backoff schedule.  requeue_with_delay leaves its sleep, and so     *)
(* publishes, only when at least 2^N seconds have passed since the         *)
(* increment, N >= 1 being retry_count after the increment (one more than  *)
(* at the failure).                                                        *)
C12_BackoffSchedule ==
    [][ (rpc = "sleeping" /\ rpc' # "sleeping") =>
          /\ message.retry_count = decision.retry_count + 1
          /\ message.retry_count >= 1
          /\ backoff.elapsed >= 2 ^ message.retry_count
          /\ wire' # wire =>
                /\ wire'[Len(wire')].topic = get_topic("hdi")
                /\ from_dict(wire'[Len(wire')].payload).retry_count
                      = message.retry_count ]_vars

\* The third requeue of a job has been published after its 8 seconds.
C12_Witness ==
    /\ rpc = "queued"
    /\ decision.action = "REQUEUE"
    /\ message.retry_count = 3
    /\ backoff = [delay |-> 8, elapsed |-> 8]
    /\ Len(wire) = 4

(* C19: legacy ingestion.  The envelope from_dict builds from a received   *)
(* mapping has in its payload every top-level key outside {job_id,         *)
(* payload, retry_count, max_retries, first_attempt_at, last_error,        *)
(* error_history, timestamp} with its original value, unless payload has   *)
(* that key already (payload's value is kept); payload holds nothing else  *)
(* than its own keys and those; missing retry metadata defaults to         *)
(* retry_count 0, max_retries 3, last_error None, error_history empty.     *)
C19_LegacyIngestion ==
    rpc = "handler" =>
        LET data == wire[Len(wire)].payload
            given == IF "payload" \in DOMAIN data THEN data.payload ELSE <<>>
            extra == DOMAIN data \ {"job_id", "payload", "retry_count",
                                    "max_retries", "first_attempt_at",
                                    "last_error", "error_history",
                                    "timestamp"}
        IN  /\ DOMAIN message.payload = DOMAIN given \cup extra
            /\ \A k \in DOMAIN given : message.payload[k] = given[k]
            /\ \A k \in extra \ DOMAIN given : message.payload[k] = data[k]
            /\ "retry_count" \notin DOMAIN data => message.retry_count = 0
            /\ "max_retries" \notin DOMAIN data => message.max_retries = 3
            /\ "last_error" \notin DOMAIN data => message.last_error = None
            /\ "error_history" \notin DOMAIN data =>
                  message.error_history = <<>>

\* A message with in_strPlaca both at the top level and in payload, and
\* in_strNumDoc at the top level only, has been decoded.
C19_Witness ==
    /\ rpc = "handler"
    /\ "in_strNumDoc" \in DOMAIN wire[Len(wire)].payload
    /\ wire[Len(wire)].payload.in_strPlaca = "ABC123"
    /\ message.payload = [in_strPlaca |-> "XYZ789", in_strNumDoc |-> "123"]
    /\ message.retry_count = 0
    /\ message.max_retries = 3

\* The retry request in progress found its job in the index.
CallFoundJob == retry_call.pc # "idle" /\ retry_call.found # NoMessage

(* C13: DLQ retry reset.  A retry_message call that succeeds for an        *)
(* indexed job publishes exactly one message: nothing before its publish   *)
(* step, and at that step one message to bots/queue/<vendor> with the      *)
(* job_id and the payload of the stored envelope, retry_count 0,           *)
(* last_error None and error_history empty; after that step job_id is in   *)
(* neither messages nor the vendor's list.                                 *)
C13_DlqRetryReset ==
    [][ /\ (retry_call.pc = "idle" /\ retry_call'.pc = "publishing") =>
              wire' = wire
        /\ (retry_call.pc = "publishing" /\ retry_call'.pc = "done"
               /\ retry_call'.result) =>
              LET published == from_dict(wire'[Len(wire')].payload)
                  v == retry_call.aseguradora
              IN  /\ Len(wire') = Len(wire) + 1
                  /\ SubSeq(wire', 1, Len(wire)) = wire
                  /\ wire'[Len(wire')].topic = <<"bots", "queue", v>>
                  /\ v \in DlqVendors
                  /\ published.job_id = retry_call.job_id
                  /\ published.payload = retry_call.found.payload
                  /\ published.retry_count = 0
                  /\ published.last_error = None
                  /\ published.error_history = <<>>
                  /\ retry_call.job_id \notin DOMAIN messages'
                  /\ \A k \in 1 .. Len(by_aseguradora') :
                        by_aseguradora'[k].aseguradora = v =>
                            retry_call.job_id
                                \notin Range(by_aseguradora'[k].job_ids) ]_vars

\* A retry of an exhausted job (retry_count 3, one error recorded) has
\* succeeded and its reset envelope is the last publish.
C13_Witness ==
    /\ retry_call.pc = "done"
    /\ retry_call.result
    /\ retry_call.found.retry_count = 3
    /\ retry_call.found.error_history # <<>>
    /\ wire[Len(wire)].topic = <<"bots", "queue", retry_call.aseguradora>>
    /\ retry_call.job_id \notin DOMAIN messages

(* C14 as stated: when the publish of retry_message fails, the index entry *)
(* of the job is untouched: the job is still in messages and in its        *)
(* vendor's list, and the stored envelope has the retry_count, last_error  *)
(* and error_history it had before the call.                               *)
C14_FailedRetryLeavesEntry ==
    (CallFoundJob /\ retry_call.pc = "done" /\ ~retry_call.result) =>
        /\ retry_call.job_id \in DOMAIN messages
        /\ FindAseguradora(by_aseguradora, retry_call.job_id) # "None"
        /\ messages[retry_call.job_id].retry_count
              = retry_call.found.retry_count
        /\ messages[retry_call.job_id].last_error
              = retry_call.found.last_error
        /\ messages[retry_call.job_id].error_history
              = retry_call.found.error_history

(* C15 as stated: retry_message returns False, and the endpoint answers    *)
(* 404, exactly when job_id is not in the DLQ index; for an indexed job    *)
(* whose republish fails the endpoint answers 5xx.                         *)
C15_NotFoundIffNotIndexed ==
    retry_call.pc = "done" =>
        /\ ~retry_call.result <=> retry_call.found = NoMessage
        /\ retry_call.status = 404 <=> retry_call.found = NoMessage
        /\ (retry_call.found # NoMessage /\ ~retry_call.result) =>
              retry_call.status >= 500

(* C16 as stated: once the subscriber is connected again under client id   *)
(* dlq-manager and has handled what the broker handed over, every message  *)
(* published to bots/dlq/<vendor> since the session exists has been        *)
(* stored in the index.                                                    *)
C16_DlqRestartRecovery ==
    (subscriber = "online" /\ inbox = <<>>) =>
        \A i \in session.since + 1 .. Len(wire) :
            wire[i].topic[2] = "dlq" => i \in stored

(* C17 as stated: a /health request that arrives while the cached         *)
(* is_alive is known and less than ttl seconds after the last real probe   *)
(* was started answers from the cache and issues no broker ping.           *)
C17_CachedWithinTtl ==
    [][\A r \in Requests :
          (/\ requests[r].pc = "idle"
           /\ requests'[r].pc # "idle"
           /\ cache.is_alive # "None"
           /\ now - last_probe < cache.ttl)
          => /\ ~requests'[r].pinged
             /\ requests'[r].pc = "done"
             /\ requests'[r].status = HealthStatus(cache.is_alive = "True")
      ]_vars

\* When request r read the clock on entry.
ArrivedAt(r) == IF requests[r].pc = "pinging" THEN requests[r].now ELSE now

(* C18 as stated: after a failed probe, once the broker is reachable       *)
(* again, a /health request made at least 5 seconds after that probe       *)
(* performs a real probe that succeeds and answers healthy.                *)
C18_HealthRecovers ==
    [][\A r \in Requests :
          (/\ requests[r].pc # "done"
           /\ requests'[r].pc = "done"
           /\ cache.is_alive = "False"
           /\ broker_up
           /\ ArrivedAt(r) - cache.last_check >= TTL_DEGRADED)
          => /\ requests'[r].probed
             /\ requests'[r].status = "healthy"
      ]_vars

(* C20 as stated: a request for a vendor outside the supported set is      *)
(* answered 400 and publishes nothing; a supported vendor is accepted in   *)
(* any letter case and published on the topic of its lowercase name.       *)
C20_VendorValidation ==
    response.status # 0 =>
        IF lower(response.aseguradora) \notin Aseguradora
        THEN response.status = 400 /\ ~response.published
        ELSE connected =>
                /\ response.status = 202
                /\ response.published
                /\ wire # <<>>
                /\ wire[Len(wire)].topic =
                       get_topic(lower(response.aseguradora))

(* C30 as stated: under concurrent /health requests a request arriving     *)
(* while another request's ping is in flight starts no second ping, so at  *)
(* most one broker ping is in flight at a time.                            *)
C30_OnePingInFlight ==
    Cardinality({r \in Requests : requests[r].pc = "pinging"}) <= 1

(* C21 as stated: a valid request for a supported vendor is answered 202   *)
(* exactly when its publish to bots/queue/<vendor> succeeded, and 503,     *)
(* with nothing published, when publish_task failed.                       *)
C21_OutcomeFollowsPublish ==
    (response.status # 0 /\ lower(response.aseguradora) \in Aseguradora) =>
        \/ /\ response.status = 202
           /\ response.published
           /\ Len(wire) = 1
           /\ wire[1].topic = get_topic(lower(response.aseguradora))
        \/ /\ response.status = 503
           /\ ~response.published
           /\ wire = <<>>

(* C22 as stated: a request for a supported vendor whose payload lacks a   *)
(* key required by the vendor's schema is answered 422 and nothing is      *)
(* published for it.                                                       *)
C22_SchemaValidation ==
    (/\ response.status # 0
     /\ lower(response.aseguradora) \in DOMAIN INSURANCE_SCHEMAS
     /\ ~validate(lower(response.aseguradora), response.payload))
    => /\ response.status = 422
       /\ ~response.published
       /\ wire = <<>>

(* C24: a job whose topic's last segment has, case-insensitively, no       *)
(* entry in the handler registry leaves handle_task dropped: no slot is    *)
(* acquired, no handler runs, nothing is published.                        *)
C24_MissingHandlerDropped ==
    [][\A m \in Msgs :
          (/\ pc[m] = "created"
           /\ lower(TaskAseguradora(m)) \notin BOT_REGISTRY
           /\ pc'[m] # "created")
          => /\ pc'[m] \in {"dropped", "cancelled"}
             /\ UNCHANGED <<active_count, active_bots, semaphore, reports,
                            wire>>
      ]_vars

C24_Witness ==
    \E m \in Msgs :
        /\ pc[m] = "dropped"
        /\ lower(TaskAseguradora(m)) \notin BOT_REGISTRY
        /\ \E k \in Msgs : pc[k] = "running"

ReportOfException == [error_code |-> "BOT_EXCEPTION", severity |-> "CRITICAL"]

C27_RunningEventuallyEnds ==
    \A m \in Msgs : (pc[m] = "running") ~> (pc[m] # "running")

(* C28: the DLQ publish is frame-preserving.  send_to_dlq publishes the    *)
(* envelope on bots/dlq/<vendor> with the retry_count and max_retries it   *)
(* had when handle_failure decided; a job that started within its budget   *)
(* and was exhausted arrives with retry_count = max_retries; max_retries   *)
(* is the same in every envelope of the chain, in the envelope in hand,    *)
(* and after reset_for_retry.                                              *)
C28_DlqFramePreserving ==
    /\ rpc = "dlq" =>
          LET sent == wire[Len(wire)]
          IN  /\ sent.topic = <<"bots", "dlq", "hdi">>
              /\ sent.payload.retry_count = decision.retry_count
              /\ sent.payload.max_retries = decision.max_retries
              /\ message.retry_count = decision.retry_count
              /\ (/\ decision.error_type \in {"RETRIABLE", "TRANSIENT"}
                  /\ first_envelope.retry_count <= first_envelope.max_retries)
                 => sent.payload.retry_count = sent.payload.max_retries
    /\ \A i \in 1 .. Len(wire) :
          from_dict(wire[i].payload).max_retries = first_envelope.max_retries
    /\ message # NoMessage =>
          /\ message.max_retries = first_envelope.max_retries
          /\ reset_for_retry(message).max_retries = message.max_retries

\* A job with max_retries 2 that started at retry_count 0 reached the DLQ
\* after two requeues.
C28_Witness ==
    /\ rpc = "dlq"
    /\ Len(wire) = 4
    /\ first_envelope.retry_count = 0
    /\ first_envelope.max_retries = 2
    /\ wire[4].payload.retry_count = 2
    /\ wire[4].payload.max_retries = 2

C23_RetryNeedsToken ==
    [][(retry_call.pc = "publishing" /\ verify_token(retry_call.token) # 0)
          => /\ wire' = wire
             /\ messages' = messages
             /\ by_aseguradora' = by_aseguradora
      ]_vars

\* C25: when the worker's sleep after a broker-transport exception is over
\* and connect returns, the worker holds a new, live broker connection.
C25_ReconnectsAfterSleep ==
    [][(wloop = "connecting" /\ wloop' = "subscribing") => client' = "live"]_vars

\* Number of positions of seq that hold x.
Occurrences(seq, x) == Cardinality({i \in 1 .. Len(seq) : seq[i] = x})

\* The DLQ message the subscriber is about to store, and whether the
\* vendor's list already holds its job_id.
NextStored == from_dict(wire[Head(inbox)].payload)

Redelivered ==
    /\ inbox # <<>>
    /\ LET i == ByPos(by_aseguradora, wire[Head(inbox)].topic[3])
       IN  /\ i # 0
           /\ NextStored.job_id \in Range(by_aseguradora[i].job_ids)

\* C31: a DLQ message delivered again for a job_id that its vendor's list
\* already holds is absorbed: storing it leaves every vendor list as it was
\* (the job_id stays once, at its position), by_id keeps one envelope for
\* it, and no vendor list ever holds a job_id twice.
C31_RedeliveryAbsorbed ==
    [][ /\ \A i \in 1 .. Len(by_aseguradora') :
              \A j \in DlqJobIds :
                 Occurrences(by_aseguradora'[i].job_ids, j) <= 1
        /\ (Redelivered /\ inbox' = Tail(inbox))
              => /\ by_aseguradora' = by_aseguradora
                 /\ NextStored.job_id \in DOMAIN messages'
                 /\ messages'[NextStored.job_id] = NextStored
      ]_vars

\* The same job_id has been stored twice from the same DLQ topic.
C31_Witness ==
    \E i, k \in stored :
        /\ i < k
        /\ wire[i].topic = wire[k].topic
        /\ wire[i].payload = wire[k].payload
        /\ LET p == ByPos(by_aseguradora, wire[i].topic[3])
           IN  /\ p # 0
               /\ by_aseguradora[p].job_ids = <<from_dict(wire[i].payload).job_id>>

\* The payloads the worker's client has received so far.
Received == SubSeq(jobs.published, 1, jobs.received)

\* C32: a message that is no JSON is skipped and consumption goes on.  In
\* the worker, the data handed to tasks is exactly the decodable payloads
\* received so far, in order, and a skip leaves the worker subscribed and
\* iterating; in the DLQ subscriber a skip changes neither index map and
\* leaves the subscriber online, and the next decodable message is stored.
C32_UndecodableSkipped ==
    [][ /\ jobs'.consumed = SelectSeq(Received', valid_json)
        /\ (jobs'.received = jobs.received + 1
               /\ ~valid_json(jobs.published[jobs.received + 1]))
              => /\ jobs'.consumed = jobs.consumed
                 /\ Subscribed'
        /\ (inbox # <<>> /\ inbox' = Tail(inbox))
              => IF valid_json(wire[Head(inbox)].payload)
                 THEN /\ Head(inbox) \in stored'
                      /\ NextStored.job_id \in DOMAIN messages'
                 ELSE /\ messages' = messages
                      /\ by_aseguradora' = by_aseguradora
                      /\ stored' = stored
                      /\ subscriber' = "online"
      ]_vars

\* Both consumers met garbage first and took the valid message after it.
C32_Witness ==
    /\ jobs.received = 2
    /\ ~valid_json(jobs.published[1])
    /\ Len(jobs.consumed) = 1
    /\ jobs.consumed[1] = jobs.published[2]
    /\ inbox = <<>>
    /\ \E i, k \in PublishedToDlq :
          /\ session.exists
          /\ session.since < i
          /\ i < k
          /\ ~valid_json(wire[i].payload)
          /\ stored = {k}

\* Job ids that a retry_message call has republished to a queue topic.
Retried ==
    {wire[i].payload.job_id :
        i \in {k \in 1 .. Len(wire) : wire[k].topic[2] = "queue"}}

\* C33: once the DLQ subscriber is connected and has taken everything the
\* broker handed over, every job that was ever indexed and has not been
\* retried is in the index, also after the manager was restarted.
C33_IndexSurvivesRestart ==
    (subscriber = "online" /\ inbox = <<>>)
        => \A i \in stored :
              LET job_id == from_dict(wire[i].payload).job_id
              IN  job_id \in Retried \/ job_id \in DOMAIN messages

\* C34: when run_worker has ended after a cancellation, every task it
\* tracked is done and no slot is active.
C34_ShutdownDrains ==
    wloop \in {"returned", "cancelled"}
        => /\ PendingTasks = {}
           /\ active_count = 0

\* C35: two writers that both acquired the cookie lock normally are never
\* inside the write of cookies.json at the same time.
C35_WritesSerialized ==
    \A w1, w2 \in Writers :
        (w1 # w2 /\ writers[w1].pc = "writing" /\ writers[w2].pc = "writing")
            => (writers[w1].timed_out \/ writers[w2].timed_out)

\* C36: the active job_id -> vendor index has as many entries as there are
\* active slots, also when two admitted jobs carry the same job_id.
C36_IndexMatchesSlotCount ==
    Cardinality(DOMAIN active_bots) = active_count

\* The job ids held by some vendor's list.
Listed == UNION {Range(by_aseguradora[i].job_ids) :
                    i \in 1 .. Len(by_aseguradora)}

\* C37: the keys of by_id are the job ids of the vendor lists, and every
\* job id is in exactly one vendor's list, exactly once.
C37_DlqIndexConsistent ==
    /\ DOMAIN messages = Listed
    /\ \A j \in Listed :
          /\ Cardinality({i \in 1 .. Len(by_aseguradora) :
                             j \in Range(by_aseguradora[i].job_ids)}) = 1
          /\ \A i \in 1 .. Len(by_aseguradora) :
                Occurrences(by_aseguradora[i].job_ids, j) <= 1

\* The DLQ messages and the queue messages on the wire that carry job_id.
DlqArrivals(job_id) ==
    {i \in PublishedToDlq : from_dict(wire[i].payload).job_id = job_id}

Requeues(job_id) ==
    {i \in 1 .. Len(wire) :
        wire[i].topic[2] = "queue" /\ wire[i].payload.job_id = job_id}

\* C38: a job that reached the DLQ once is republished to its queue at most
\* once, and of two retry requests for it that run at the same time at
\* most one returns true.
C38_RetryPublishesOnce ==
    \A j \in DlqJobIds :
        Cardinality(DlqArrivals(j)) = 1
            => /\ Cardinality(Requeues(j)) <= 1
               /\ ~ ( /\ retry_call.pc = "done" /\ retry_call.result
                      /\ rival_call.pc = "done" /\ rival_call.result
                      /\ retry_call.job_id = j
                      /\ rival_call.job_id = j )

\* C39: when requeue_with_delay or send_to_dlq has returned normally, the
\* envelope has gone out to bots/queue/<vendor> or bots/dlq/<vendor>: the
\* chain never ends with the job neither queued nor in the DLQ.
C39_NoSilentLoss ==
    /\ rpc # "lost"
    /\ rpc = "dlq" =>
          /\ wire[Len(wire)].topic = <<"bots", "dlq", "hdi">>
          /\ wire[Len(wire)].ok

\* C40: the envelope requeue_with_delay publishes after handle_failure
\* answered REQUEUE carries a retry_count between 1 and max_retries that
\* is one more than the retry_count of the envelope whose failure led to it.
C40_RequeueWithinBudget ==
    [][(rpc = "sleeping" /\ rpc' = "queued")
          => LET published == from_dict(wire'[Len(wire')].payload)
             IN  /\ Len(wire') = Len(wire) + 1
                 /\ wire'[Len(wire')].topic = get_topic("hdi")
                 /\ decision.action = "REQUEUE"
                 /\ published.retry_count >= 1
                 /\ published.retry_count <= published.max_retries
                 /\ published.retry_count = decision.retry_count + 1
      ]_vars

\* A second requeue in a row went out with the last retry the budget has.
C40_Witness ==
    /\ rpc = "queued"
    /\ Len(wire) = 3
    /\ decision.action = "REQUEUE"
    /\ decision.retry_count = 1
    /\ from_dict(wire[3].payload).retry_count = 2
    /\ from_dict(wire[3].payload).max_retries = 2

====
